---- MODULE Spec2Model ----
(***************************************************************************)
(* agent-perf-test-generator: profile loader, plan generator, metrics      *)
(* loader, metrics interpreter, evidence log and command line.            *)
(*                                                                         *)
(* Numbers.  A Python number is modelled in fixed point, in thousandths:   *)
(* the float 0.01 is 10, the int 400 is 400000.  Integer-typed fields of   *)
(* the program's dataclasses (baseline_rps, peak_rps, target_rps) hold     *)
(* plain integers.                                                          *)
(*                                                                         *)
(* Values of the untyped documents (what yaml.safe_load / json.load /      *)
(* csv.DictReader hand to the program) are records [t, v]:                 *)
(*   absent  the key is not in the mapping                                 *)
(*   none    null                                                          *)
(*   int     an int, v in thousandths      float   a finite float          *)
(*   inf     float infinity                nan     float NaN               *)
(*   bigint  an int beyond the range of a float (e.g. 10**400)             *)
(*   bool    True (v = 1000) or False (v = 0)                              *)
(*   str     text that is not a number; v = 0 is the empty string          *)
(*   numstr  text that float() accepts, v its value in thousandths         *)
(*   list, dict  a container where a scalar was expected                   *)
(***************************************************************************)
EXTENDS Integers, Sequences, FiniteSets, TLC

VARIABLES pc, file, outcome, plan, mfile, mres, ires, common_metrics, plan2,
          log, logdir, appended, events, cli, stdout, stderr, outfile

\* The evidence log file, whether its parent directory exists, the events
\* handed to append_event so far, and what read_events returned
logVars == <<log, logdir, appended, events>>

\* The command line and the locals of the running command, what it wrote to
\* standard output and to standard error, and the file of --out
cliVars == <<cli, stdout, stderr, outfile>>

vars == <<pc, file, outcome, plan, mfile, mres, ires, common_metrics, plan2, logVars, cliVars>>

-----------------------------------------------------------------------------
(* Bounds *)

\* Largest requests-per-second figure of a profile document
MaxRps == 1
\* Longest dependencies list of a profile document
MaxDeps == 2
\* Largest number of percentile keys of slo.latency_ms
MaxLat == 2
\* Number of metric fields of a metrics file that take every kind of value
MaxWide == 2
\* Largest number of append_event calls on the evidence log
MaxCalls == 2

-----------------------------------------------------------------------------
(* Python values *)

Absent == [t |-> "absent", v |-> 0]
PyNone == [t |-> "none", v |-> 0]
PInt(n) == [t |-> "int", v |-> n * 1000]
PFloat(m) == [t |-> "float", v |-> m]
PInf == [t |-> "inf", v |-> 0]
PNaN == [t |-> "nan", v |-> 0]
PBig == [t |-> "bigint", v |-> 0]
PTrue == [t |-> "bool", v |-> 1000]
PStr(i) == [t |-> "str", v |-> i]
PNumStr(m) == [t |-> "numstr", v |-> m]
PList == [t |-> "list", v |-> 0]
PDict == [t |-> "dict", v |-> 0]

\* dict.get(key) / dict.get(key, default)
Get(x) == IF x.t = "absent" THEN PyNone ELSE x
GetDefault(x, d) == IF x.t = "absent" THEN d ELSE x

\* isinstance(x, (int, float)); bool is a subclass of int
IsNumber(x) == x.t \in {"int", "float", "inf", "nan", "bigint", "bool"}

\* isinstance(x, str)
IsStr(x) == x.t \in {"str", "numstr"}

\* bool(x)
Truthy(x) ==
    CASE x.t \in {"absent", "none"} -> FALSE
      [] x.t \in {"int", "float", "bool", "str"} -> x.v # 0
      [] OTHER -> TRUE

\* Truncation of thousandths toward zero
Trunc(m) == IF m >= 0 THEN m \div 1000 ELSE -((-m) \div 1000)

\* float(x): [exc, val]; exc = "" when the conversion succeeds
PyFloat(x) ==
    CASE x.t \in {"int", "float", "bool", "numstr"} -> [exc |-> "", val |-> PFloat(x.v)]
      [] x.t \in {"inf", "nan"} -> [exc |-> "", val |-> x]
      [] x.t = "bigint" -> [exc |-> "OverflowError", val |-> PyNone]
      [] x.t = "str" -> [exc |-> "ValueError", val |-> PyNone]
      [] OTHER -> [exc |-> "TypeError", val |-> PyNone]

\* Mutant of PyInt: the nearest integer instead of the truncation
PyIntRound(x) ==
    CASE x.t \in {"int", "float", "bool"} -> [exc |-> "", val |-> PInt((x.v + 500) \div 1000)]
      [] x.t = "bigint" -> [exc |-> "", val |-> x]
      [] x.t = "inf" -> [exc |-> "OverflowError", val |-> PyNone]
      [] x.t = "nan" -> [exc |-> "ValueError", val |-> PyNone]
      [] OTHER -> [exc |-> "TypeError", val |-> PyNone]

\* int(x) for a number x: [exc, val]
PyInt(x) ==
    CASE x.t \in {"int", "float", "bool"} -> [exc |-> "", val |-> PInt(Trunc(x.v))]
      [] x.t = "bigint" -> [exc |-> "", val |-> x]
      [] x.t = "inf" -> [exc |-> "OverflowError", val |-> PyNone]
      [] x.t = "nan" -> [exc |-> "ValueError", val |-> PyNone]
      [] OTHER -> [exc |-> "TypeError", val |-> PyNone]

\* The first exception raised by a sequence of evaluations, "" when none
FirstExc(s) ==
    IF \E i \in 1..Len(s) : s[i] # ""
    THEN s[CHOOSE i \in 1..Len(s) : s[i] # "" /\ \A j \in 1..(i - 1) : s[j] = ""]
    ELSE ""

-----------------------------------------------------------------------------
(* Domain model (models.py) and the untyped profile document *)

\* A document is
\*   [service, traffic |-> [t, baseline_rps, peak_rps, burst_factor],
\*    slo |-> [t, latency_ms |-> [t, items], error_rate],
\*    endpoints |-> [t, items], dependencies |-> [t, items],
\*    data |-> [t, uses_production_data, notes]]
\* where t is the Python type of the value found under the key and items is
\* the content of a dict (a sequence of [k, v] in insertion order) or list.

NoTraffic == [t |-> "none", baseline_rps |-> PyNone, peak_rps |-> PyNone, burst_factor |-> PyNone]
NoSLO == [t |-> "none", latency_ms |-> <<>>, error_rate |-> PyNone]
NoData == [t |-> "none", uses_production_data |-> FALSE, notes |-> PStr(0)]
NoProfile ==
    [service |-> PyNone, traffic |-> NoTraffic, slo |-> NoSLO,
     endpoints |-> <<>>, dependencies |-> <<>>, data |-> NoData]

TrafficShape(b, p, f) ==
    [t |-> "TrafficShape", baseline_rps |-> b, peak_rps |-> p, burst_factor |-> f]
SLO(l, e) == [t |-> "SLO", latency_ms |-> l, error_rate |-> e]
DataConstraints(u, n) == [t |-> "DataConstraints", uses_production_data |-> u, notes |-> n]
ServiceProfile(s, tr, sl, ep, dep, d) ==
    [service |-> s, traffic |-> tr, slo |-> sl, endpoints |-> ep, dependencies |-> dep, data |-> d]

-----------------------------------------------------------------------------
(* loader.py *)

ErrService == "'service' is required and must be a non-empty string"
ErrTraffic == "'traffic' is required and must be a mapping"
ErrBaseline == "'traffic.baseline_rps' is required and must be a number"
ErrPeak == "'traffic.peak_rps' is required and must be a number"
ErrSlo == "'slo' is required and must be a mapping"
ErrLatency == "'slo.latency_ms' must be a mapping"
ErrErrorRate == "'slo.error_rate' must be a number"
ErrEndpoints == "'endpoints' must be a list"
ErrDependencies == "'dependencies' must be a list"
ErrEndpointItem(i) == "endpoints[" \o ToString(i) \o "] must be a mapping"
ErrEndpointPath(i) == "endpoints[" \o ToString(i) \o "].path is required"

\* _parse_traffic(raw, errors): [exc, errors, traffic]
ParseTraffic(raw, errors) ==
    LET baseline0 == Get(raw.baseline_rps)
        peak0 == Get(raw.peak_rps)
        burst == GetDefault(raw.burst_factor, PFloat(3000))
        badB == baseline0.t = "none" \/ ~IsNumber(baseline0)
        badP == peak0.t = "none" \/ ~IsNumber(peak0)
        baseline == IF badB THEN PInt(0) ELSE baseline0
        peak == IF badP THEN PInt(0) ELSE peak0
        errs == errors \o (IF badB THEN <<ErrBaseline>> ELSE <<>>)
                       \o (IF badP THEN <<ErrPeak>> ELSE <<>>)
        ib == PyInt(baseline)
        ip == PyInt(peak)
        fb == PyFloat(burst)
        exc == FirstExc(<<ib.exc, ip.exc, fb.exc>>)
    IN  [exc |-> exc, errors |-> errs,
         traffic |-> IF exc = "" THEN TrafficShape(ib.val, ip.val, fb.val) ELSE NoTraffic]

\* _parse_slo(raw, errors): [exc, errors, slo]
ParseSlo(raw, errors) ==
    LET badL == raw.latency_ms.t \notin {"absent", "dict"}
        latency_ms == IF raw.latency_ms.t = "dict" THEN raw.latency_ms.items ELSE <<>>
        error_rate0 == GetDefault(raw.error_rate, PFloat(10))
        badE == ~IsNumber(error_rate0)
        error_rate == IF badE THEN PFloat(10) ELSE error_rate0
        errs == errors \o (IF badL THEN <<ErrLatency>> ELSE <<>>)
                       \o (IF badE THEN <<ErrErrorRate>> ELSE <<>>)
        fe == PyFloat(error_rate)
    IN  [exc |-> fe.exc, errors |-> errs,
         slo |-> IF fe.exc = "" THEN SLO(latency_ms, fe.val) ELSE NoSLO]

\* The loop of _parse_endpoints over items[1..n]: [errors, endpoints]
RECURSIVE EndpointLoop(_, _, _)
EndpointLoop(items, n, errors) ==
    IF n = 0 THEN [errors |-> errors, endpoints |-> <<>>]
    ELSE LET r == EndpointLoop(items, n - 1, errors)
             ep == items[n]
             path == GetDefault(ep.path, PStr(0))
         IN  IF ep.t # "dict"
             THEN [errors |-> Append(r.errors, ErrEndpointItem(n - 1)),
                   endpoints |-> r.endpoints]
             ELSE [errors |-> IF ~Truthy(path)
                              THEN Append(r.errors, ErrEndpointPath(n - 1))
                              ELSE r.errors,
                   endpoints |-> Append(r.endpoints, [path |-> path])]

\* _parse_endpoints(raw.get("endpoints", []), errors): [errors, endpoints]
ParseEndpoints(raw, errors) ==
    IF raw.t \notin {"absent", "list"}
    THEN [errors |-> Append(errors, ErrEndpoints), endpoints |-> <<>>]
    ELSE EndpointLoop(raw.items, IF raw.t = "list" THEN Len(raw.items) ELSE 0, errors)

\* str(x)
PyStr(x) ==
    CASE IsStr(x) -> x
      [] x.t \in {"int", "float"} -> PNumStr(x.v)
      [] OTHER -> PStr(1)

\* _parse_data(raw.get("data"))
ParseData(raw) ==
    IF raw.t # "dict" THEN DataConstraints(FALSE, PStr(0))
    ELSE DataConstraints(Truthy(GetDefault(raw.uses_production_data, [t |-> "bool", v |-> 0])),
                         PyStr(GetDefault(raw.notes, PStr(0))))

Raise(kind, errors) == [kind |-> kind, errors |-> errors, profile |-> NoProfile]

\* Mutant of BuildProfile: the collected errors do not stop the construction
BuildProfileNoRaise(raw) ==
    LET service == Get(raw.service)
        e1 == IF ~Truthy(service) \/ ~IsStr(service) THEN <<ErrService>> ELSE <<>>
        isT == raw.traffic.t = "dict"
        tr == IF isT THEN ParseTraffic(raw.traffic, e1)
              ELSE [exc |-> "", errors |-> Append(e1, ErrTraffic), traffic |-> NoTraffic]
        isS == raw.slo.t = "dict"
        sl == IF isS THEN ParseSlo(raw.slo, tr.errors)
              ELSE [exc |-> "", errors |-> Append(tr.errors, ErrSlo), slo |-> NoSLO]
        ep == ParseEndpoints(raw.endpoints, sl.errors)
        badD == raw.dependencies.t \notin {"absent", "list"}
        dependencies == IF raw.dependencies.t = "list" THEN raw.dependencies.items ELSE <<>>
        errors == ep.errors \o (IF badD THEN <<ErrDependencies>> ELSE <<>>)
        data == ParseData(raw.data)
    IN  IF tr.exc # "" THEN Raise(tr.exc, tr.errors)
        ELSE IF sl.exc # "" THEN Raise(sl.exc, sl.errors)
        ELSE [kind |-> "profile", errors |-> errors,
              profile |-> ServiceProfile(service, tr.traffic, sl.slo, ep.endpoints,
                                         dependencies, data)]

\* _build_profile(raw): the outcome [kind, errors, profile]; kind is "profile"
\* when a ServiceProfile is returned and the exception's class otherwise;
\* errors is the local list `errors` when the function exits (the bullets of
\* the ProfileValidationError message, in order).
BuildProfile(raw) ==
    LET service == Get(raw.service)
        e1 == IF ~Truthy(service) \/ ~IsStr(service) THEN <<ErrService>> ELSE <<>>
        isT == raw.traffic.t = "dict"
        tr == IF isT THEN ParseTraffic(raw.traffic, e1)
              ELSE [exc |-> "", errors |-> Append(e1, ErrTraffic), traffic |-> NoTraffic]
        isS == raw.slo.t = "dict"
        sl == IF isS THEN ParseSlo(raw.slo, tr.errors)
              ELSE [exc |-> "", errors |-> Append(tr.errors, ErrSlo), slo |-> NoSLO]
        ep == ParseEndpoints(raw.endpoints, sl.errors)
        badD == raw.dependencies.t \notin {"absent", "list"}
        dependencies == IF raw.dependencies.t = "list" THEN raw.dependencies.items ELSE <<>>
        errors == ep.errors \o (IF badD THEN <<ErrDependencies>> ELSE <<>>)
        data == ParseData(raw.data)
    IN  IF tr.exc # "" THEN Raise(tr.exc, tr.errors)
        ELSE IF sl.exc # "" THEN Raise(sl.exc, sl.errors)
        ELSE IF errors # <<>> THEN Raise("ProfileValidationError", errors)
        ELSE [kind |-> "profile", errors |-> errors,
              profile |-> ServiceProfile(service, tr.traffic, sl.slo, ep.endpoints,
                                         dependencies, data)]

\* load_profile(path); f = [kind, doc] is what the path leads to
LoadProfileOf(f) ==
    CASE f.kind = "missing" -> Raise("ProfileValidationError", <<"profile file not found">>)
      [] f.kind = "unreadable" -> Raise("OSError", <<>>)
      [] f.kind = "badext" -> Raise("ProfileValidationError", <<"unsupported file extension">>)
      [] f.kind = "syntax" -> Raise("ProfileValidationError", <<"failed to parse">>)
      [] f.kind = "nonmap" ->
            Raise("ProfileValidationError", <<"profile must be a mapping/object at the top level">>)
      [] OTHER -> BuildProfile(f.doc)

-----------------------------------------------------------------------------
(* generator.py *)

\* Check(metric, operator, threshold); threshold is a float value.  The
\* description text is not modelled.
Check(m, op, th) == [metric |-> m, operator |-> op, threshold |-> th]

\* Stage(name, duration_seconds, target_rps)
Stage(n, d, r) == [name |-> n, duration_seconds |-> d, target_rps |-> r]

Scenario(n, st, ch, mw) == [name |-> n, stages |-> st, checks |-> ch, metrics_to_watch |-> mw]

\* The list that the module global _COMMON_METRICS is bound to at import; the
\* variable common_metrics is the list's current content
COMMON_METRICS ==
    <<"latency_p50", "latency_p90", "latency_p95", "latency_p99",
      "error_rate", "throughput_rps", "cpu_percent", "memory_percent">>

\* Mutant of CommonMetricsAfter: the soak scenario extends the module's list
\* in place instead of a copy of it
CommonMetricsExtended(metrics) == metrics \o <<"gc_pause_ms">>

\* The content of _COMMON_METRICS after a call of generate_plan: each
\* scenario reads it through list(_COMMON_METRICS), a copy, and nothing
\* assigns to it
CommonMetricsAfter(metrics) == metrics

\* Mutant of CommonChecks: the error_rate check is not appended
CommonChecksNoErrorRate(profile) ==
    LET lat == profile.slo.latency_ms
        fl == [i \in 1..Len(lat) |-> PyFloat(lat[i].v)]
        exc == FirstExc([i \in 1..Len(lat) |-> fl[i].exc])
    IN  [exc |-> exc,
         checks |-> IF exc # "" THEN <<>>
                    ELSE [i \in 1..Len(lat) |-> Check("latency_" \o lat[i].k, "<=", fl[i].val)]]

\* Mutant of CommonChecks: the latency checks are in reverse order
CommonChecksReversed(profile) ==
    LET lat == profile.slo.latency_ms
        n == Len(lat)
        fl == [i \in 1..n |-> PyFloat(lat[i].v)]
        exc == FirstExc([i \in 1..n |-> fl[i].exc])
    IN  [exc |-> exc,
         checks |-> IF exc # "" THEN <<>>
                    ELSE [i \in 1..n |->
                            Check("latency_" \o lat[n + 1 - i].k, "<=", fl[n + 1 - i].val)]
                         \o <<Check("error_rate", "<=", profile.slo.error_rate)>>]

\* _common_checks(profile): [exc, checks]
CommonChecks(profile) ==
    LET lat == profile.slo.latency_ms
        fl == [i \in 1..Len(lat) |-> PyFloat(lat[i].v)]
        exc == FirstExc([i \in 1..Len(lat) |-> fl[i].exc])
    IN  [exc |-> exc,
         checks |-> IF exc # "" THEN <<>>
                    ELSE [i \in 1..Len(lat) |-> Check("latency_" \o lat[i].k, "<=", fl[i].val)]
                         \o <<Check("error_rate", "<=", profile.slo.error_rate)>>]

\* _steady_scenario(profile): [exc, scenario]
SteadyScenario(profile) ==
    LET baseline == profile.traffic.baseline_rps
        cc == CommonChecks(profile)
    IN  [exc |-> cc.exc,
         scenario |-> Scenario("steady",
                               <<Stage("ramp-up", 60, baseline),
                                 Stage("hold", 600, baseline),
                                 Stage("ramp-down", 30, PInt(0))>>,
                               cc.checks, common_metrics)]

\* int * float
PyMul(i, f) ==
    CASE i.t = "bigint" -> [exc |-> "OverflowError", val |-> PyNone]
      [] f.t = "nan" -> [exc |-> "", val |-> PNaN]
      [] f.t = "inf" -> [exc |-> "", val |-> IF i.v = 0 THEN PNaN ELSE PInf]
      [] OTHER -> [exc |-> "", val |-> PFloat((i.v * f.v) \div 1000)]

\* Mutant of Times15: the threshold is not relaxed
TimesOne(x) == x

\* float * 1.5
Times15(x) == IF x.t = "float" THEN PFloat((x.v * 3) \div 2) ELSE x

\* c.metric.startswith("latency_")
IsLatencyMetric(m) == Len(m) >= 8 /\ SubSeq(m, 1, 8) = "latency_"

\* _burst_scenario(profile): [exc, scenario]
BurstScenario(profile) ==
    LET peak == profile.traffic.peak_rps
        prod == PyMul(peak, profile.traffic.burst_factor)
        burst_rps == IF prod.exc # "" THEN prod ELSE PyInt(prod.val)
        baseline == profile.traffic.baseline_rps
        cc == CommonChecks(profile)
        checks == cc.checks
        burst_checks ==
            [i \in 1..Len(checks) |->
                IF IsLatencyMetric(checks[i].metric)
                THEN Check(checks[i].metric, checks[i].operator, Times15(checks[i].threshold))
                ELSE checks[i]]
    IN  [exc |-> FirstExc(<<burst_rps.exc, cc.exc>>),
         scenario |-> Scenario("burst",
                               <<Stage("ramp-up", 60, baseline),
                                 Stage("hold-baseline", 120, baseline),
                                 Stage("spike", 30, burst_rps.val),
                                 Stage("hold-burst", 120, burst_rps.val),
                                 Stage("recover", 60, baseline),
                                 Stage("ramp-down", 30, PInt(0))>>,
                               burst_checks, common_metrics)]

\* Mutant of SoakScenario: the cpu_percent check comes before the
\* memory_percent check
SoakScenarioCpuFirst(profile) ==
    LET baseline == profile.traffic.baseline_rps
        cc == CommonChecks(profile)
    IN  [exc |-> cc.exc,
         scenario |-> Scenario("soak",
                               <<Stage("ramp-up", 120, baseline),
                                 Stage("hold", 3600, baseline),
                                 Stage("ramp-down", 60, PInt(0))>>,
                               cc.checks \o <<Check("cpu_percent", "<=", PFloat(80000)),
                                              Check("memory_percent", "<=", PFloat(85000))>>,
                               common_metrics \o <<"gc_pause_ms">>)]

\* _soak_scenario(profile): [exc, scenario]
SoakScenario(profile) ==
    LET baseline == profile.traffic.baseline_rps
        cc == CommonChecks(profile)
    IN  [exc |-> cc.exc,
         scenario |-> Scenario("soak",
                               <<Stage("ramp-up", 120, baseline),
                                 Stage("hold", 3600, baseline),
                                 Stage("ramp-down", 60, PInt(0))>>,
                               cc.checks \o <<Check("memory_percent", "<=", PFloat(85000)),
                                              Check("cpu_percent", "<=", PFloat(80000))>>,
                               common_metrics \o <<"gc_pause_ms">>)]

\* The characters of a str value: "" for the empty string, a name of its own
\* for every other one
StrText(x) ==
    CASE x.t = "str" -> IF x.v = 0 THEN "" ELSE "s" \o ToString(x.v)
      [] x.t = "numstr" -> "n" \o ToString(x.v)
      [] OTHER -> ""

\* sep.join(strings)
RECURSIVE Join(_, _)
Join(strings, sep) ==
    IF strings = <<>> THEN ""
    ELSE IF Len(strings) = 1 THEN strings[1]
    ELSE strings[1] \o sep \o Join(Tail(strings), sep)

PII_WARNING ==
    "WARNING: profile indicates production data may be in use. "
    \o "Ensure PII masking and data-handling policies are followed."

CLEANUP ==
    "After test completion, tear down any provisioned test data "
    \o "and verify no side-effects leaked to shared environments."

\* The f-string of environment_isolation around deps
EnvIsolation(deps) ==
    "Ensure load tests run against an isolated environment. "
    \o "Dependencies (" \o deps \o ") should be stubbed or provisioned in test mode."

\* Mutant of SafetyNotes: non-empty notes take priority over the warning
SafetyNotesNotesFirst(profile) ==
    LET data == profile.data
        test_data ==
            IF data.t # "none" /\ Truthy(data.notes) THEN StrText(data.notes)
            ELSE IF data.t # "none" /\ data.uses_production_data THEN PII_WARNING
            ELSE "Use synthetic/test data only."
        exc == IF \E i \in 1..Len(profile.dependencies) : ~IsStr(profile.dependencies[i])
               THEN "TypeError" ELSE ""
        deps == IF profile.dependencies # <<>>
                THEN Join([i \in 1..Len(profile.dependencies) |->
                              StrText(profile.dependencies[i])], ", ")
                ELSE "none listed"
    IN  [exc |-> exc,
         notes |-> [test_data_handling |-> test_data,
                    environment_isolation |-> EnvIsolation(deps),
                    cleanup_steps |-> CLEANUP]]

\* _safety_notes(profile): [exc, notes]; ", ".join raises TypeError when a
\* dependency is not a str
SafetyNotes(profile) ==
    LET data == profile.data
        test_data ==
            IF data.t # "none" /\ data.uses_production_data THEN PII_WARNING
            ELSE IF data.t # "none" /\ Truthy(data.notes) THEN StrText(data.notes)
            ELSE "Use synthetic/test data only."
        exc == IF \E i \in 1..Len(profile.dependencies) : ~IsStr(profile.dependencies[i])
               THEN "TypeError" ELSE ""
        deps == IF profile.dependencies # <<>>
                THEN Join([i \in 1..Len(profile.dependencies) |->
                              StrText(profile.dependencies[i])], ", ")
                ELSE "none listed"
    IN  [exc |-> exc,
         notes |-> [test_data_handling |-> test_data,
                    environment_isolation |-> EnvIsolation(deps),
                    cleanup_steps |-> CLEANUP]]

NoNotes == [test_data_handling |-> "", environment_isolation |-> "", cleanup_steps |-> ""]
NoPlan == [kind |-> "none", service |-> PyNone, scenarios |-> <<>>, safety_notes |-> NoNotes]

\* generate_plan(profile, profile_path): [kind, service, scenarios, safety_notes];
\* kind is "plan" when a LoadTestPlan is returned, the exception's class otherwise
GeneratePlanOf(profile) ==
    LET st == SteadyScenario(profile)
        bu == BurstScenario(profile)
        so == SoakScenario(profile)
        sn == SafetyNotes(profile)
        exc == FirstExc(<<st.exc, bu.exc, so.exc, sn.exc>>)
    IN  IF exc # "" THEN [NoPlan EXCEPT !.kind = exc]
        ELSE [kind |-> "plan", service |-> profile.service,
              scenarios |-> <<st.scenario, bu.scenario, so.scenario>>,
              safety_notes |-> sn.notes]

-----------------------------------------------------------------------------
(* interpreter.py: load_metrics *)

METRIC_FIELDS ==
    <<"p50_ms", "p90_ms", "p95_ms", "p99_ms", "error_rate", "throughput_rps",
      "cpu_percent", "memory_percent", "gc_pause_ms">>

FieldNames == {METRIC_FIELDS[i] : i \in 1..Len(METRIC_FIELDS)}

\* MetricsSummary(): every field None
NoMetrics == [f \in FieldNames |-> PyNone]

MissingWarning(f) == "missing field: " \o f
NonNumericWarning(f) == "non-numeric value for " \o f

\* Mutant of DictField: a missing field is set to None without a warning
DictFieldSilentMissing(raw, field_name) ==
    LET val == Get(raw[field_name])
        fl == PyFloat(val)
    IN  IF val.t = "none"
        THEN [exc |-> "", val |-> PyNone, warnings |-> <<>>]
        ELSE IF fl.exc \in {"ValueError", "TypeError"}
        THEN [exc |-> "", val |-> PyNone, warnings |-> <<NonNumericWarning(field_name)>>]
        ELSE [exc |-> fl.exc, val |-> fl.val, warnings |-> <<>>]

\* One turn of the loop of _dict_to_metrics, for the field field_name:
\* [exc, val, warnings]
DictField(raw, field_name) ==
    LET val == Get(raw[field_name])
        fl == PyFloat(val)
    IN  IF val.t = "none"
        THEN [exc |-> "", val |-> PyNone, warnings |-> <<MissingWarning(field_name)>>]
        ELSE IF fl.exc \in {"ValueError", "TypeError"}
        THEN [exc |-> "", val |-> PyNone, warnings |-> <<NonNumericWarning(field_name)>>]
        ELSE [exc |-> fl.exc, val |-> fl.val, warnings |-> <<>>]

RECURSIVE ConcatWarnings(_, _)
ConcatWarnings(r, n) ==
    IF n = 0 THEN <<>> ELSE ConcatWarnings(r, n - 1) \o r[METRIC_FIELDS[n]].warnings

MetricsRaise(kind) == [kind |-> kind, metrics |-> NoMetrics, warnings |-> <<>>]

\* _dict_to_metrics(raw): [kind, metrics, warnings]; kind is "ok" when the
\* pair (MetricsSummary, warnings) is returned, the exception's class otherwise
DictToMetrics(raw) ==
    LET r == [f \in FieldNames |-> DictField(raw, f)]
        exc == FirstExc([i \in 1..Len(METRIC_FIELDS) |-> r[METRIC_FIELDS[i]].exc])
    IN  IF exc # "" THEN MetricsRaise(exc)
        ELSE [kind |-> "ok", metrics |-> [f \in FieldNames |-> r[f].val],
              warnings |-> ConcatWarnings(r, Len(METRIC_FIELDS))]

\* Mutant of CsvRaw: a cell that float() rejects is kept as it is
CsvRawKeep(cells) ==
    [f \in FieldNames |->
        IF cells[f].t = "absent" THEN Absent
        ELSE IF PyFloat(cells[f]).exc = "" THEN PyFloat(cells[f]).val
        ELSE cells[f]]

\* The dict `raw` that _load_csv builds from the first data row: a recognized
\* column is kept when float() accepts its cell and left out otherwise
CsvRaw(cells) ==
    [f \in FieldNames |->
        IF cells[f].t # "absent" /\ PyFloat(cells[f]).exc = ""
        THEN PyFloat(cells[f]).val ELSE Absent]

\* load_metrics(path); f = [kind, fields, extra] is what the path leads to:
\* fields are the values of a JSON object, or the first data row of a CSV
\* file by header column (none: the row is shorter than the header), and
\* extra says that this row has more cells than the header, which
\* csv.DictReader stores under the key None.
LoadMetricsOf(f) ==
    CASE f.kind = "missing" -> MetricsRaise("MetricsParseError")
      [] f.kind = "badext" -> MetricsRaise("MetricsParseError")
      [] f.kind = "json_unreadable" -> MetricsRaise("OSError")
      [] f.kind = "json_syntax" -> MetricsRaise("MetricsParseError")
      [] f.kind = "json_nonobject" -> MetricsRaise("MetricsParseError")
      [] f.kind = "json" -> DictToMetrics(f.fields)
      [] f.kind = "csv_unreadable" -> MetricsRaise("MetricsParseError")
      [] f.kind = "csv_norows" -> MetricsRaise("MetricsParseError")
      [] OTHER -> IF f.extra THEN MetricsRaise("AttributeError")
                  ELSE DictToMetrics(CsvRaw(f.fields))

-----------------------------------------------------------------------------
(* interpreter.py: interpret *)

\* a <= b for a float a: [exc, val]
PyLe(a, b) ==
    CASE ~IsNumber(b) -> [exc |-> "TypeError", val |-> FALSE]
      [] a.t = "nan" \/ b.t = "nan" -> [exc |-> "", val |-> FALSE]
      [] b.t = "inf" -> [exc |-> "", val |-> TRUE]
      [] a.t = "inf" -> [exc |-> "", val |-> FALSE]
      [] b.t = "bigint" -> [exc |-> "", val |-> TRUE]
      [] OTHER -> [exc |-> "", val |-> a.v <= b.v]

\* a > n for a float a and an int literal n (in thousandths)
PyGt(a, n) ==
    CASE a.t = "nan" -> FALSE
      [] a.t = "inf" -> TRUE
      [] OTHER -> a.v > n

\* Mutant of LatencyGet: the threshold of the first key, whatever the key
LatencyGetAnyKey(latency_ms, pct) == IF latency_ms # <<>> THEN latency_ms[1].v ELSE PyNone

\* slo.latency_ms.get(pct)
LatencyGet(latency_ms, pct) ==
    IF \E i \in 1..Len(latency_ms) : latency_ms[i].k = pct
    THEN latency_ms[CHOOSE i \in 1..Len(latency_ms) : latency_ms[i].k = pct].v
    ELSE PyNone

CheckEntry(m, r, d) == [metric |-> m, result |-> r, detail |-> d]

\* Mutant of LatencyCheck: a null metric is compared like a number
LatencyCheckNoSkip(pct, value, slo) ==
    LET threshold == LatencyGet(slo.latency_ms, pct)
        le == PyLe(value, threshold)
        passed == le.val
    IN  IF threshold.t = "none" THEN [exc |-> "", checks |-> <<>>, fail |-> FALSE]
        ELSE [exc |-> le.exc,
              checks |-> <<CheckEntry("latency_" \o pct,
                                      IF passed THEN "pass" ELSE "fail",
                                      pct \o " latency")>>,
              fail |-> ~passed]

\* Mutant of LatencyCheck: a value equal to the threshold fails
LatencyCheckStrict(pct, value, slo) ==
    LET threshold == LatencyGet(slo.latency_ms, pct)
        le == PyLe(value, threshold)
        passed == le.val /\ value.v # threshold.v
    IN  IF threshold.t = "none" THEN [exc |-> "", checks |-> <<>>, fail |-> FALSE]
        ELSE IF value.t = "none"
        THEN [exc |-> "",
              checks |-> <<CheckEntry("latency_" \o pct, "skip",
                                      pct \o " latency not provided in metrics")>>,
              fail |-> FALSE]
        ELSE [exc |-> le.exc,
              checks |-> <<CheckEntry("latency_" \o pct,
                                      IF passed THEN "pass" ELSE "fail",
                                      pct \o " latency")>>,
              fail |-> ~passed]

\* One turn of the latency loop of interpret: [exc, checks, fail], fail
\* saying that the turn sets any_fail
LatencyCheck(pct, value, slo) ==
    LET threshold == LatencyGet(slo.latency_ms, pct)
        le == PyLe(value, threshold)
        passed == le.val
    IN  IF threshold.t = "none" THEN [exc |-> "", checks |-> <<>>, fail |-> FALSE]
        ELSE IF value.t = "none"
        THEN [exc |-> "",
              checks |-> <<CheckEntry("latency_" \o pct, "skip",
                                      pct \o " latency not provided in metrics")>>,
              fail |-> FALSE]
        ELSE [exc |-> le.exc,
              checks |-> <<CheckEntry("latency_" \o pct,
                                      IF passed THEN "pass" ELSE "fail",
                                      pct \o " latency")>>,
              fail |-> ~passed]

\* Mutant of ErrorRateCheck: a failing error rate does not set any_fail
ErrorRateCheckNoFlag(metrics, slo) ==
    LET passed == PyLe(metrics["error_rate"], slo.error_rate).val
    IN  IF metrics["error_rate"].t # "none"
        THEN [check |-> CheckEntry("error_rate", IF passed THEN "pass" ELSE "fail",
                                   "error rate"),
              fail |-> FALSE]
        ELSE [check |-> CheckEntry("error_rate", "skip", "error rate not provided in metrics"),
              fail |-> FALSE]

\* The error rate check of interpret: [check, fail]
ErrorRateCheck(metrics, slo) ==
    LET passed == PyLe(metrics["error_rate"], slo.error_rate).val
    IN  IF metrics["error_rate"].t # "none"
        THEN [check |-> CheckEntry("error_rate", IF passed THEN "pass" ELSE "fail",
                                   "error rate"),
              fail |-> ~passed]
        ELSE [check |-> CheckEntry("error_rate", "skip", "error rate not provided in metrics"),
              fail |-> FALSE]

\* Mutant of Risks: the limits are inclusive (>= 80, >= 80, >= 100)
RisksInclusive(metrics) ==
    (IF metrics["cpu_percent"].t # "none" /\ ~PyGt(PFloat(80000), metrics["cpu_percent"].v)
     THEN <<"High CPU usage">> ELSE <<>>)
    \o (IF metrics["memory_percent"].t # "none"
           /\ ~PyGt(PFloat(80000), metrics["memory_percent"].v)
        THEN <<"High memory usage">> ELSE <<>>)
    \o (IF metrics["gc_pause_ms"].t # "none" /\ ~PyGt(PFloat(100000), metrics["gc_pause_ms"].v)
        THEN <<"Elevated GC pause">> ELSE <<>>)

\* The resource saturation risks of interpret
Risks(metrics) ==
    (IF metrics["cpu_percent"].t # "none" /\ PyGt(metrics["cpu_percent"], 80000)
     THEN <<"High CPU usage">> ELSE <<>>)
    \o (IF metrics["memory_percent"].t # "none" /\ PyGt(metrics["memory_percent"], 80000)
        THEN <<"High memory usage">> ELSE <<>>)
    \o (IF metrics["gc_pause_ms"].t # "none" /\ PyGt(metrics["gc_pause_ms"], 100000)
        THEN <<"Elevated GC pause">> ELSE <<>>)

\* [c for c in checks if c["result"] == "fail"]
RECURSIVE Failed(_)
Failed(checks) ==
    IF checks = <<>> THEN <<>>
    ELSE (IF Head(checks).result = "fail" THEN <<Head(checks)>> ELSE <<>>)
         \o Failed(Tail(checks))

\* f"{x:.0f}": round to the nearest integer, ties to even
Format0(x) ==
    CASE x.t = "inf" -> "inf"
      [] x.t = "nan" -> "nan"
      [] OTHER ->
          LET a == IF x.v >= 0 THEN x.v ELSE -x.v
              q == a \div 1000
              r == a % 1000
              n == IF r > 500 \/ (r = 500 /\ q % 2 = 1) THEN q + 1 ELSE q
          IN  (IF x.v < 0 THEN "-" ELSE "") \o ToString(n)

\* Mutant of BuildNarrative: no risks block when the status is "fail"
BuildNarrativeNoRisksOnFail(status, checks, risks, metrics) ==
    LET failed == Failed(checks)
        opening ==
            IF status = "pass" THEN <<"All SLO checks passed.">>
            ELSE IF status = "fail"
            THEN <<"SLO VIOLATION: " \o ToString(Len(failed)) \o " check(s) failed.">>
                 \o [i \in 1..Len(failed) |-> "  - " \o failed[i].detail]
            ELSE <<"SLO checks passed, but risks were detected.">>
        throughput ==
            IF metrics["throughput_rps"].t # "none"
            THEN <<"Throughput: " \o Format0(metrics["throughput_rps"]) \o " rps">>
            ELSE <<>>
        risklines ==
            IF risks # <<>> /\ status # "fail"
            THEN <<"Risks:">> \o [i \in 1..Len(risks) |-> "  - " \o risks[i]]
            ELSE <<>>
    IN  Join(opening \o throughput \o risklines, "\n")

\* _build_narrative(status, checks, risks, metrics)
BuildNarrative(status, checks, risks, metrics) ==
    LET failed == Failed(checks)
        opening ==
            IF status = "pass" THEN <<"All SLO checks passed.">>
            ELSE IF status = "fail"
            THEN <<"SLO VIOLATION: " \o ToString(Len(failed)) \o " check(s) failed.">>
                 \o [i \in 1..Len(failed) |-> "  - " \o failed[i].detail]
            ELSE <<"SLO checks passed, but risks were detected.">>
        throughput ==
            IF metrics["throughput_rps"].t # "none"
            THEN <<"Throughput: " \o Format0(metrics["throughput_rps"]) \o " rps">>
            ELSE <<>>
        risklines ==
            IF risks # <<>>
            THEN <<"Risks:">> \o [i \in 1..Len(risks) |-> "  - " \o risks[i]]
            ELSE <<>>
    IN  Join(opening \o throughput \o risklines, "\n")

NoResult == [kind |-> "none", status |-> "", narrative |-> "", checks |-> <<>>, risks |-> <<>>]

\* The status triage of interpret
Triage(any_fail, risks) == IF any_fail THEN "fail" ELSE (IF risks # <<>> THEN "warning" ELSE "pass")

\* interpret(metrics, slo): [kind, status, narrative, checks, risks]; kind is
\* "result" when an InterpretationResult is returned, the exception's class
\* otherwise
InterpretOf(metrics, slo) ==
    LET l95 == LatencyCheck("p95", metrics["p95_ms"], slo)
        l99 == LatencyCheck("p99", metrics["p99_ms"], slo)
        exc == FirstExc(<<l95.exc, l99.exc>>)
        er == ErrorRateCheck(metrics, slo)
        checks == l95.checks \o l99.checks \o <<er.check>>
        any_fail == l95.fail \/ l99.fail \/ er.fail
        risks == Risks(metrics)
        status == Triage(any_fail, risks)
    IN  IF exc # "" THEN [NoResult EXCEPT !.kind = exc]
        ELSE [kind |-> "result", status |-> status,
              narrative |-> BuildNarrative(status, checks, risks, metrics),
              checks |-> checks, risks |-> risks]

-----------------------------------------------------------------------------
(* evidence.py: the JSON text of json.dumps and json.loads *)

\* JSON values: [t, s, items].  s is the text of a string, a number or a
\* literal; items are the elements of a list or the [k, v] pairs of an object
JStr(s) == [t |-> "str", s |-> s, items |-> <<>>]
JBool(b) == [t |-> "bool", s |-> IF b THEN "true" ELSE "false", items |-> <<>>]
JNull == [t |-> "null", s |-> "null", items |-> <<>>]
JNum(digits) == [t |-> "num", s |-> digits, items |-> <<>>]
JList(items) == [t |-> "list", s |-> "", items |-> items]
JObject(pairs) == [t |-> "object", s |-> "", items |-> pairs]

\* The character of text at position i, "" past the end
Ch(text, i) == IF i >= 1 /\ i <= Len(text) THEN SubSeq(text, i, i) ELSE ""

\* The body of a JSON string for text: json.dumps escapes the quote, the
\* backslash and the newline
RECURSIVE Escape(_)
Escape(text) ==
    IF text = "" THEN ""
    ELSE LET c == Ch(text, 1)
             e == CASE c = "\"" -> "\\\""
                    [] c = "\\" -> "\\\\"
                    [] c = "\n" -> "\\n"
                    [] OTHER -> c
         IN  e \o Escape(SubSeq(text, 2, Len(text)))

\* json.dumps(value) with the default separators ", " and ": "
RECURSIVE JsonDumps(_)
JsonDumps(value) ==
    CASE value.t = "str" -> "\"" \o Escape(value.s) \o "\""
      [] value.t = "list" ->
            "[" \o Join([i \in 1..Len(value.items) |-> JsonDumps(value.items[i])], ", ") \o "]"
      [] value.t = "object" ->
            "{" \o Join([i \in 1..Len(value.items) |->
                            "\"" \o Escape(value.items[i].k) \o "\": "
                            \o JsonDumps(value.items[i].v)], ", ") \o "}"
      [] OTHER -> value.s

\* The first position at or after i that holds no space
RECURSIVE SkipSpace(_, _)
SkipSpace(text, i) == IF Ch(text, i) = " " THEN SkipSpace(text, i + 1) ELSE i

NoParse == [ok |-> FALSE, val |-> JNull, pos |-> 0]

\* The characters of a JSON string from position i (after the opening
\* quote) to its closing quote: [ok, val, pos], val the decoded text and pos
\* the position after the closing quote
RECURSIVE ScanString(_, _, _)
ScanString(text, i, acc) ==
    LET c == Ch(text, i)
        d == Ch(text, i + 1)
    IN  CASE c = "" \/ c = "\n" -> [ok |-> FALSE, val |-> "", pos |-> 0]
          [] c = "\"" -> [ok |-> TRUE, val |-> acc, pos |-> i + 1]
          [] c = "\\" ->
                IF d = "n" THEN ScanString(text, i + 2, acc \o "\n")
                ELSE IF d = "\"" \/ d = "\\" THEN ScanString(text, i + 2, acc \o d)
                ELSE [ok |-> FALSE, val |-> "", pos |-> 0]
          [] OTHER -> ScanString(text, i + 1, acc \o c)

IsDigit(c) == c \in {"0", "1", "2", "3", "4", "5", "6", "7", "8", "9"}

\* The position after the digits that start at i
RECURSIVE SkipDigits(_, _)
SkipDigits(text, i) == IF IsDigit(Ch(text, i)) THEN SkipDigits(text, i + 1) ELSE i

\* text[i..] starts with word
StartsWith(text, i, word) ==
    i + Len(word) - 1 <= Len(text) /\ SubSeq(text, i, i + Len(word) - 1) = word

\* The JSON value that starts at position i: [ok, val, pos]
RECURSIVE ParseValue(_, _), ParseItems(_, _, _), ParsePairs(_, _, _)
ParseValue(text, i) ==
    LET c == Ch(text, i)
    IN  CASE c = "\"" ->
                LET r == ScanString(text, i + 1, "")
                IN  IF r.ok THEN [ok |-> TRUE, val |-> JStr(r.val), pos |-> r.pos] ELSE NoParse
          [] IsDigit(c) ->
                LET j == SkipDigits(text, i)
                IN  [ok |-> TRUE, val |-> JNum(SubSeq(text, i, j - 1)), pos |-> j]
          [] StartsWith(text, i, "true") -> [ok |-> TRUE, val |-> JBool(TRUE), pos |-> i + 4]
          [] StartsWith(text, i, "false") -> [ok |-> TRUE, val |-> JBool(FALSE), pos |-> i + 5]
          [] StartsWith(text, i, "null") -> [ok |-> TRUE, val |-> JNull, pos |-> i + 4]
          [] c = "[" ->
                LET j == SkipSpace(text, i + 1)
                IN  IF Ch(text, j) = "]" THEN [ok |-> TRUE, val |-> JList(<<>>), pos |-> j + 1]
                    ELSE ParseItems(text, j, <<>>)
          [] c = "{" ->
                LET j == SkipSpace(text, i + 1)
                IN  IF Ch(text, j) = "}" THEN [ok |-> TRUE, val |-> JObject(<<>>), pos |-> j + 1]
                    ELSE ParsePairs(text, j, <<>>)
          [] OTHER -> NoParse

\* The elements of a list from position i, after the elements acc
ParseItems(text, i, acc) ==
    LET r == ParseValue(text, i)
        j == SkipSpace(text, r.pos)
    IN  IF ~r.ok THEN NoParse
        ELSE IF Ch(text, j) = "," THEN ParseItems(text, SkipSpace(text, j + 1), Append(acc, r.val))
        ELSE IF Ch(text, j) = "]"
        THEN [ok |-> TRUE, val |-> JList(Append(acc, r.val)), pos |-> j + 1]
        ELSE NoParse

\* The pairs of an object from position i, after the pairs acc
ParsePairs(text, i, acc) ==
    LET k == IF Ch(text, i) = "\"" THEN ScanString(text, i + 1, "")
             ELSE [ok |-> FALSE, val |-> "", pos |-> 0]
        c == SkipSpace(text, k.pos)
        r == ParseValue(text, SkipSpace(text, c + 1))
        j == SkipSpace(text, r.pos)
        pairs == Append(acc, [k |-> k.val, v |-> r.val])
    IN  IF ~k.ok \/ Ch(text, c) # ":" THEN NoParse
        ELSE IF ~r.ok THEN NoParse
        ELSE IF Ch(text, j) = "," THEN ParsePairs(text, SkipSpace(text, j + 1), pairs)
        ELSE IF Ch(text, j) = "}" THEN [ok |-> TRUE, val |-> JObject(pairs), pos |-> j + 1]
        ELSE NoParse

\* json.loads(text): [ok, val]; ok is FALSE for JSONDecodeError
JsonLoads(text) ==
    LET r == ParseValue(text, SkipSpace(text, 1))
    IN  IF r.ok /\ SkipSpace(text, r.pos) = Len(text) + 1
        THEN [ok |-> TRUE, val |-> r.val]
        ELSE [ok |-> FALSE, val |-> JNull]

\* raw.get(key, default) for a dict raw: the last pair with the key
RawGet(raw, key, default) ==
    LET hits == {i \in 1..Len(raw.items) : raw.items[i].k = key}
    IN  IF hits = {} THEN default
        ELSE raw.items[CHOOSE i \in hits : \A j \in hits : j <= i].v

-----------------------------------------------------------------------------
(* evidence.py: the log *)

\* EvidenceEvent; every field is a JSON value
EvidenceEvent(ts, service, profile, scenarios, interpretation, label) ==
    [ts |-> ts, service |-> service, profile |-> profile, scenarios |-> scenarios,
     interpretation |-> interpretation, outcome |-> label]

\* The dict that append_event serializes
EventDict(event) ==
    JObject(<<[k |-> "ts", v |-> event.ts],
              [k |-> "service", v |-> event.service],
              [k |-> "profile", v |-> event.profile],
              [k |-> "scenarios", v |-> event.scenarios],
              [k |-> "interpretation", v |-> event.interpretation],
              [k |-> "outcome", v |-> event.outcome]>>)

\* A file: whether it exists, and its text
NoLog == [exists |-> FALSE, text |-> ""]

\* Mutant of WriteAppend: the file is opened with mode "w"
WriteTruncate(f, line) == [exists |-> TRUE, text |-> line \o "\n"]

\* open(log_path, "a") and f.write(line + "\n")
WriteAppend(f, line) == [exists |-> TRUE, text |-> f.text \o line \o "\n"]

\* append_event(event, log_path): the log file after the call
AppendEventTo(f, event) == WriteAppend(f, JsonDumps(EventDict(event)))

\* The lines of a text file, without their newlines: `for line in f`
RECURSIVE SplitLines(_, _)
SplitLines(text, from) ==
    LET ends == {i \in from..Len(text) : Ch(text, i) = "\n"}
        end == CHOOSE i \in ends : \A j \in ends : i <= j
    IN  IF from > Len(text) THEN <<>>
        ELSE IF ends = {} THEN <<SubSeq(text, from, Len(text))>>
        ELSE <<SubSeq(text, from, end - 1)>> \o SplitLines(text, end + 1)

\* line.strip() of a line without its newline
Strip(line) ==
    LET inked == {i \in 1..Len(line) : Ch(line, i) # " "}
        first == CHOOSE i \in inked : \A j \in inked : i <= j
        last == CHOOSE i \in inked : \A j \in inked : j <= i
    IN  IF inked = {} THEN "" ELSE SubSeq(line, first, last)

\* The EvidenceEvent that read_events builds from a parsed dict
EventOfRaw(raw) ==
    EvidenceEvent(RawGet(raw, "ts", JStr("")), RawGet(raw, "service", JStr("")),
                  RawGet(raw, "profile", JStr("")), RawGet(raw, "scenarios", JList(<<>>)),
                  RawGet(raw, "interpretation", JBool(FALSE)), RawGet(raw, "outcome", JStr("")))

NoEvents == [kind |-> "none", events |-> <<>>]

\* The loop of read_events over lines[1..n]: [kind, events].  raw.get on a
\* value that is not a dict raises AttributeError, which the loop does not
\* catch
RECURSIVE ReadLoop(_, _)
ReadLoop(lines, n) ==
    IF n = 0 THEN [kind |-> "ok", events |-> <<>>]
    ELSE LET r == ReadLoop(lines, n - 1)
             line == Strip(lines[n])
             raw == JsonLoads(line)
         IN  IF r.kind # "ok" THEN r
             ELSE IF line = "" THEN r
             ELSE IF ~raw.ok THEN r
             ELSE IF raw.val.t # "object" THEN [kind |-> "AttributeError", events |-> <<>>]
             ELSE [kind |-> "ok", events |-> Append(r.events, EventOfRaw(raw.val))]

\* read_events(log_path): [kind, events]; kind is "ok" when a list is
\* returned, the exception's class otherwise
ReadEventsOf(f) ==
    IF ~f.exists THEN [kind |-> "ok", events |-> <<>>]
    ELSE LET lines == SplitLines(f.text, 1) IN ReadLoop(lines, Len(lines))

-----------------------------------------------------------------------------
(* cli.py *)

\* The options of the command line (whether --out, --log and --metrics are
\* given), the locals interpretation_ran and outcome of `plan`, and how the
\* command ended ("" while it runs)
NoCli ==
    [cmd |-> "none", out |-> FALSE, log_path |-> FALSE, metrics |-> FALSE,
     interpretation_ran |-> FALSE, outcome |-> "", exit |-> ""]

\* A variant of ProfileExit in which the command goes on after any failure
ProfileExitZero(kind) == ""

\* The exit status that follows load_profile in both commands: "" when the
\* command goes on, "1" for sys.exit(1) and for an exception that nothing
\* catches
ProfileExit(kind) == IF kind = "profile" THEN "" ELSE "1"

\* What a command writes to standard error for an exception of class kind
\* that leaves it: `Error: ...` when the command catches it, the
\* interpreter's traceback otherwise
ErrorReport(kind, caught) ==
    IF caught THEN <<"Error: " \o kind>> ELSE <<"Traceback: " \o kind>>

\* A variant of OutcomeOf that reports issues for every status but "pass"
OutcomeOfWarningAsIssue(status) ==
    IF status # "pass" THEN "issues-detected" ELSE "plan-and-interpretation-generated"

\* The outcome label of `plan` after interpret returned
OutcomeOf(status) ==
    IF status = "fail" THEN "issues-detected" ELSE "plan-and-interpretation-generated"

\* A variant of PlanLocals that sets interpretation_ran before the try block
PlanLocalsRanOnFailure(given, m, r) ==
    [interpretation_ran |-> given,
     outcome |-> IF given /\ m.kind = "ok" /\ r.kind = "result"
                 THEN IF r.status = "fail" THEN "issues-detected"
                      ELSE "plan-and-interpretation-generated"
                 ELSE "plan-generated"]

\* The locals interpretation_ran and outcome of `plan` after the metrics
\* block, for what load_metrics and interpret did: m is the outcome of
\* load_metrics and r of interpret (NoResult when it was not called)
PlanLocals(given, m, r) ==
    IF given /\ m.kind = "ok" /\ r.kind = "result"
    THEN [interpretation_ran |-> TRUE, outcome |-> OutcomeOf(r.status)]
    ELSE [interpretation_ran |-> FALSE, outcome |-> "plan-generated"]

\* The lines of `for w in warnings: click.echo(f"Warning: {w}", err=True)`
WarningLines(warnings) == [i \in 1..Len(warnings) |-> "Warning: " \o warnings[i]]

\* What `plan` writes to standard output for a result of interpret
InterpretationReport(r) ==
    <<"--- Metrics Interpretation ---", "Status: " \o r.status, r.narrative>>

\* [s.name for s in test_plan.scenarios]
ScenarioNames(p) == JList([i \in 1..Len(p.scenarios) |-> JStr(p.scenarios[i].name)])

\* create_event(...) at the time ts
CreateEvent(ts, service, scenarios, interpretation, label) ==
    EvidenceEvent(JStr(ts), JStr(StrText(service)), JStr("profile.yaml"), scenarios,
                  JBool(interpretation), JStr(label))

-----------------------------------------------------------------------------
(* Inputs *)

NoDoc ==
    [service |-> Absent,
     traffic |-> [t |-> "absent", baseline_rps |-> Absent, peak_rps |-> Absent,
                  burst_factor |-> Absent],
     slo |-> [t |-> "absent", latency_ms |-> [t |-> "absent", items |-> <<>>],
              error_rate |-> Absent],
     endpoints |-> [t |-> "absent", items |-> <<>>],
     dependencies |-> [t |-> "absent", items |-> <<>>],
     data |-> [t |-> "absent", uses_production_data |-> Absent, notes |-> Absent]]

NoFile == [kind |-> "none", doc |-> NoDoc]
NoMetricsFile == [kind |-> "none", fields |-> [f \in FieldNames |-> Absent], extra |-> FALSE]
NoOutcome == [kind |-> "none", errors |-> <<>>, profile |-> NoProfile]
NoMetricsResult == [kind |-> "none", metrics |-> NoMetrics, warnings |-> <<>>]

\* Sequences of length at most n over S
SeqsUpTo(S, n) == UNION {[1..k -> S] : k \in 0..n}

\* Sequences without a repeated key (the items of a dict)
DistinctKeys(s) == \A i, j \in 1..Len(s) : i # j => s[i].k # s[j].k

\* --- documents for the loader ---

RpsValues == {Absent, PStr(1), PInf, PFloat(2500)} \cup {PInt(n) : n \in (-1)..MaxRps}
BurstValues == {Absent, PyNone, PFloat(1500), PFloat(0), PInt(-1), PStr(1), PNumStr(2500)}

LoaderTraffic ==
    {NoDoc.traffic, [NoDoc.traffic EXCEPT !.t = "str"]}
    \cup [t : {"dict"}, baseline_rps : RpsValues, peak_rps : {Absent, PInt(MaxRps)},
          burst_factor : BurstValues]

LoaderSlo ==
    {NoDoc.slo, [NoDoc.slo EXCEPT !.t = "list"]}
    \cup [t : {"dict"},
          latency_ms : {[t |-> "absent", items |-> <<>>], [t |-> "list", items |-> <<>>],
                        [t |-> "dict", items |-> <<[k |-> "p95", v |-> PInt(400)]>>]},
          error_rate : {Absent, PFloat(50), PStr(1), PBig}]

EndpointItems ==
    {[t |-> "str", path |-> Absent], [t |-> "dict", path |-> Absent],
     [t |-> "dict", path |-> PStr(1)]}

LoaderEndpoints ==
    {NoDoc.endpoints, [t |-> "str", items |-> <<>>]}
    \cup {[t |-> "list", items |-> s] : s \in SeqsUpTo(EndpointItems, 1)}
    \cup {[t |-> "list", items |-> <<[t |-> "dict", path |-> PStr(1)],
                                    [t |-> "str", path |-> Absent]>>]}

LoaderDependencies ==
    {NoDoc.dependencies, [t |-> "dict", items |-> <<>>], [t |-> "list", items |-> <<PStr(1)>>]}

LoaderDocs ==
    [service : {Absent, PStr(0), PStr(1), PInt(7)},
     traffic : LoaderTraffic, slo : LoaderSlo, endpoints : LoaderEndpoints,
     dependencies : LoaderDependencies, data : {NoDoc.data}]

LoaderFiles ==
    {[kind |-> k, doc |-> NoDoc] : k \in {"missing", "unreadable", "badext", "syntax", "nonmap"}}
    \cup {[kind |-> "map", doc |-> d] : d \in LoaderDocs}

\* --- documents for the generator ---

LatencyKeys == {"p50", "p95", "p99"}
LatencyValues == {PInt(400), PFloat(800500), PStr(1)}

LatencyMaps ==
    {s \in SeqsUpTo([k : LatencyKeys, v : LatencyValues], MaxLat) : DistinctKeys(s)}

GenTraffic ==
    [t : {"dict"}, baseline_rps : {PInt(n) : n \in 0..MaxRps},
     peak_rps : {PInt(MaxRps), PFloat(2500), PInt(200)},
     burst_factor : {Absent, PFloat(1500), PFloat(-500), PInf}]

GenSlo ==
    {[t |-> "dict", latency_ms |-> [t |-> "absent", items |-> <<>>], error_rate |-> Absent]}
    \cup [t : {"dict"}, latency_ms : {[t |-> "dict", items |-> s] : s \in LatencyMaps},
          error_rate : {Absent, PFloat(50)}]

GenDependencies ==
    {NoDoc.dependencies}
    \cup {[t |-> "list", items |-> s] : s \in SeqsUpTo({PStr(1), PStr(2), PInt(5)}, MaxDeps)}

GenData ==
    {NoDoc.data,
     [t |-> "dict", uses_production_data |-> PTrue, notes |-> PStr(1)],
     [t |-> "dict", uses_production_data |-> Absent, notes |-> PStr(1)],
     [t |-> "dict", uses_production_data |-> Absent, notes |-> Absent]}

\* Every SLO with every traffic shape, and every traffic shape with every
\* dependencies list and data mapping
GenDocs ==
    [service : {PStr(1)}, traffic : GenTraffic, slo : GenSlo, endpoints : {NoDoc.endpoints},
     dependencies : {NoDoc.dependencies}, data : {NoDoc.data}]
    \cup [service : {PStr(1)}, traffic : GenTraffic,
          slo : {[t |-> "dict",
                  latency_ms |-> [t |-> "dict", items |-> <<[k |-> "p95", v |-> PInt(400)]>>],
                  error_rate |-> Absent]},
          endpoints : {NoDoc.endpoints}, dependencies : GenDependencies, data : GenData]

GenFiles == {[kind |-> "map", doc |-> d] : d \in GenDocs} \cup {[kind |-> "syntax", doc |-> NoDoc]}

\* --- metrics files ---

\* Values of a JSON object / cells of a CSV row
JsonValues == {Absent, PyNone, PInt(1), PFloat(2500), PNumStr(2500), PStr(1), PList, PBig, PNaN}
CsvCells == {Absent, PyNone, PNumStr(2500), PStr(1), PStr(0)}

\* The position of a field in METRIC_FIELDS
Position(f) == CHOOSE i \in 1..Len(METRIC_FIELDS) : METRIC_FIELDS[i] = f

\* The mappings in which each of the first MaxWide fields takes any value of
\* V and each other field is absent or is the value common
FieldMaps(common, V) ==
    {[f \in FieldNames |-> IF Position(f) <= MaxWide THEN w[Position(f)] ELSE n[Position(f)]] :
        w \in [1..MaxWide -> V],
        n \in [(MaxWide + 1)..Len(METRIC_FIELDS) -> {Absent, common}]}

MetricsFiles ==
    {[NoMetricsFile EXCEPT !.kind = k] :
        k \in {"missing", "badext", "json_unreadable", "json_syntax", "json_nonobject",
               "csv_unreadable", "csv_norows"}}
    \cup {[kind |-> "json", fields |-> m, extra |-> FALSE] : m \in FieldMaps(PInt(1), JsonValues)}
    \cup {[kind |-> "csv", fields |-> m, extra |-> x] :
            m \in FieldMaps(PNumStr(2500), CsvCells), x \in BOOLEAN}

\* --- inputs of interpret: an SLO (through a profile) and a metrics summary ---

InterpLatency ==
    {<<>>,
     <<[k |-> "p95", v |-> PInt(400)]>>,
     <<[k |-> "p95", v |-> PInt(400)], [k |-> "p99", v |-> PInt(800)]>>,
     <<[k |-> "p50", v |-> PInt(100)], [k |-> "p99", v |-> PFloat(800500)]>>,
     <<[k |-> "p95", v |-> PStr(1)], [k |-> "p99", v |-> PInt(800)]>>,
     <<[k |-> "p95", v |-> PyNone], [k |-> "p99", v |-> PInt(800)]>>}

InterpDocs ==
    [service : {PStr(1)},
     traffic : {[t |-> "dict", baseline_rps |-> PInt(MaxRps), peak_rps |-> PInt(MaxRps),
                 burst_factor |-> Absent]},
     slo : [t : {"dict"}, latency_ms : {[t |-> "dict", items |-> s] : s \in InterpLatency},
            error_rate : {Absent}],
     endpoints : {NoDoc.endpoints}, dependencies : {NoDoc.dependencies}, data : {NoDoc.data}]

InterpFiles == {[kind |-> "map", doc |-> d] : d \in InterpDocs}

InterpFields ==
    [p50_ms : {Absent}, p90_ms : {Absent, PInt(200)},
     p95_ms : {Absent, PInt(350), PInt(400), PInt(900)},
     p99_ms : {PyNone, PInt(700), PInt(1500), PNaN},
     error_rate : {Absent, PFloat(5), PFloat(10), PFloat(50)},
     throughput_rps : {Absent, PFloat(194500)},
     cpu_percent : {Absent, PInt(80), PInt(92)},
     memory_percent : {PStr(1), PInt(88)},
     gc_pause_ms : {Absent, PInt(150)}]

InterpMetricsFiles == {[kind |-> "json", fields |-> m, extra |-> FALSE] : m \in InterpFields}

\* --- evidence events and log files ---

\* The events handed to append_event; a service name may hold a newline, a
\* quote and a backslash
LogEvents ==
    [ts : {JStr("2024-01-01T00:00:00Z")},
     service : {JStr("svc"), JStr("a\nb\"c\\d")},
     profile : {JStr("p.yaml")},
     scenarios : {JList(<<JStr("steady")>>), JList(<<JStr("steady"), JStr("burst")>>)},
     interpretation : {JBool(FALSE), JBool(TRUE)},
     outcome : {JStr("plan-generated")}]

\* Lines of a log file that append_event did not write
ForeignLines ==
    {"", "  ", "this is not json", "{\"service\": \"good\"", "[]", "42", "null", "\"text\"",
     "{}", "{\"service\":\"good\",\"ts\":\"t\",\"interpretation\":false}",
     " {\"outcome\": \"o\", \"scenarios\": [\"burst\"]} "}

\* Log files of at most MaxCalls lines, the last with or without its
\* newline, and no file
ForeignLogs ==
    {NoLog}
    \cup {[exists |-> TRUE, text |-> Join(ls, "\n") \o end] :
            ls \in SeqsUpTo(ForeignLines, MaxCalls), end \in {"", "\n"}}

\* --- command lines ---

\* What datetime.now can return
Timestamps == {"2024-01-01T00:00:00Z", "2024-01-01T00:00:01Z"}

\* Profile files that exist (click checks the path): the profiles of
\* InterpFiles, a p95 threshold written as the string of a number (float()
\* converts it, <= does not compare with it), files that load_profile
\* rejects, and a burst_factor that float() cannot hold
CliFiles ==
    InterpFiles
    \cup {[kind |-> "map",
           doc |-> [d EXCEPT !.slo.latency_ms.items =
                                <<[k |-> "p95", v |-> PNumStr(400000)]>>]] : d \in InterpDocs}
    \cup {[kind |-> k, doc |-> NoDoc] : k \in {"unreadable", "badext", "syntax", "nonmap"}}
    \cup {[kind |-> "map", doc |-> NoDoc]}
    \cup {[kind |-> "map",
           doc |-> [NoDoc EXCEPT !.service = PStr(1),
                                 !.traffic = [t |-> "dict", baseline_rps |-> PInt(MaxRps),
                                              peak_rps |-> PInt(MaxRps),
                                              burst_factor |-> PBig]]]}

\* Metrics files that exist: summaries that pass, warn and fail, and files
\* on which load_metrics raises
CliMetricsFiles ==
    {[kind |-> "json", fields |-> m, extra |-> FALSE] :
        m \in [p50_ms : {Absent}, p90_ms : {Absent}, p95_ms : {Absent, PInt(900)},
               p99_ms : {PInt(700)}, error_rate : {Absent, PFloat(50)},
               throughput_rps : {Absent}, cpu_percent : {Absent, PInt(92)},
               memory_percent : {Absent}, gc_pause_ms : {Absent}]}
    \cup {[NoMetricsFile EXCEPT !.kind = k] : k \in {"badext", "json_syntax", "json_unreadable"}}
    \cup {[kind |-> "json", fields |-> [NoMetricsFile.fields EXCEPT !["p95_ms"] = PBig],
           extra |-> FALSE],
          [kind |-> "csv", fields |-> NoMetricsFile.fields, extra |-> TRUE]}

\* The command lines: `plan` with any of --out, --log and --metrics, and
\* `interpret-cmd`
CommandLines ==
    {[NoCli EXCEPT !.cmd = "plan", !.out = o, !.log_path = l, !.metrics = m] :
        o \in BOOLEAN, l \in BOOLEAN, m \in BOOLEAN}
    \cup {[NoCli EXCEPT !.cmd = "interpret-cmd", !.metrics = TRUE]}

\* The line of an earlier run in the evidence log
PriorLine ==
    JsonDumps(EventDict(CreateEvent("2023-12-31T23:59:59Z", PStr(2), JList(<<>>), FALSE,
                                    "plan-generated")))

\* The evidence log before the command runs: no file, or one earlier line
CliLogs == {NoLog, [exists |-> TRUE, text |-> PriorLine \o "\n"]}

-----------------------------------------------------------------------------
(* State machine.  pc is the last call that completed. *)

\* svc_profile = load_profile(profile)
LoadProfile ==
    /\ file.kind # "none"
    /\ outcome.kind = "none"
    /\ outcome' = LoadProfileOf(file)
    /\ pc' = "load_profile"
    /\ UNCHANGED <<file, plan, mfile, mres, ires, common_metrics, plan2, logVars, cliVars>>

\* test_plan = generate_plan(svc_profile, profile)
GeneratePlan ==
    /\ outcome.kind = "profile"
    /\ plan.kind = "none"
    /\ plan' = GeneratePlanOf(outcome.profile)
    /\ common_metrics' = CommonMetricsAfter(common_metrics)
    /\ pc' = "generate_plan"
    /\ UNCHANGED <<file, outcome, mfile, mres, ires, plan2, logVars, cliVars>>

\* plan2 = generate_plan(profile, path): a second call with the same profile
GeneratePlanAgain ==
    /\ outcome.kind = "profile"
    /\ plan.kind # "none"
    /\ plan2.kind = "none"
    /\ plan2' = GeneratePlanOf(outcome.profile)
    /\ common_metrics' = CommonMetricsAfter(common_metrics)
    /\ pc' = "generate_plan_again"
    /\ UNCHANGED <<file, outcome, plan, mfile, mres, ires, logVars, cliVars>>

\* metrics_data, warnings = load_metrics(metrics)
LoadMetrics ==
    /\ mfile.kind # "none"
    /\ mres.kind = "none"
    /\ mres' = LoadMetricsOf(mfile)
    /\ pc' = "load_metrics"
    /\ UNCHANGED <<file, outcome, plan, mfile, ires, common_metrics, plan2, logVars, cliVars>>

\* result = interpret(metrics_data, svc_profile.slo)
Interpret ==
    /\ outcome.kind = "profile"
    /\ mres.kind = "ok"
    /\ ires.kind = "none"
    /\ ires' = InterpretOf(mres.metrics, outcome.profile.slo)
    /\ pc' = "interpret"
    /\ UNCHANGED <<file, outcome, plan, mfile, mres, common_metrics, plan2, logVars, cliVars>>

\* append_event(event, log_path): os.makedirs creates the parent directory
\* when it is missing, and open(log_path, "a") the file
AppendEvent ==
    /\ Len(appended) < MaxCalls
    /\ \E event \in LogEvents :
          /\ log' = AppendEventTo(log, event)
          /\ appended' = Append(appended, event)
    /\ logdir' = TRUE
    /\ pc' = "append_event"
    /\ UNCHANGED <<file, outcome, plan, mfile, mres, ires, common_metrics, plan2, events, cliVars>>

\* events = read_events(log_path)
ReadEvents ==
    /\ events' = ReadEventsOf(log)
    /\ pc' = "read_events"
    /\ UNCHANGED <<file, outcome, plan, mfile, mres, ires, common_metrics, plan2,
                   log, logdir, appended, cliVars>>

\* Both commands: svc_profile = load_profile(profile) in its try block
CliLoadProfile ==
    /\ cli.cmd # "none"
    /\ pc = "init"
    /\ outcome' = LoadProfileOf(file)
    /\ cli' = [cli EXCEPT !.exit = ProfileExit(outcome'.kind)]
    /\ stderr' = IF outcome'.kind = "profile" THEN stderr
                 ELSE stderr \o ErrorReport(outcome'.kind,
                                            outcome'.kind = "ProfileValidationError")
    /\ pc' = IF outcome'.kind = "profile" THEN "loaded" ELSE "exit"
    /\ UNCHANGED <<file, plan, mfile, mres, ires, common_metrics, plan2, logVars,
                   stdout, outfile>>

\* plan: generate_plan, plan_to_json, and the plan written to --out or
\* echoed
PlanEmit ==
    /\ cli.cmd = "plan"
    /\ pc = "loaded"
    /\ plan' = GeneratePlanOf(outcome.profile)
    /\ common_metrics' = CommonMetricsAfter(common_metrics)
    /\ IF plan'.kind # "plan"
       THEN /\ cli' = [cli EXCEPT !.exit = "1"]
            /\ stderr' = stderr \o ErrorReport(plan'.kind, FALSE)
            /\ pc' = "exit"
            /\ UNCHANGED <<stdout, outfile>>
       ELSE /\ outfile' = IF cli.out THEN [exists |-> TRUE, text |-> "plan_json" \o "\n"]
                          ELSE outfile
            /\ stdout' = Append(stdout, IF cli.out THEN "Plan written to out" ELSE "plan_json")
            /\ pc' = "emitted"
            /\ UNCHANGED <<cli, stderr>>
    /\ UNCHANGED <<file, outcome, mfile, mres, ires, plan2, logVars>>

\* plan: the locals and the optional interpretation in its try block
PlanMetrics ==
    /\ cli.cmd = "plan"
    /\ pc = "emitted"
    /\ mres' = IF cli.metrics THEN LoadMetricsOf(mfile) ELSE mres
    /\ ires' = IF cli.metrics /\ mres'.kind = "ok"
               THEN InterpretOf(mres'.metrics, outcome.profile.slo) ELSE ires
    /\ LET locals == PlanLocals(cli.metrics, mres', ires')
       IN  cli' = [cli EXCEPT !.interpretation_ran = locals.interpretation_ran,
                              !.outcome = locals.outcome]
    /\ stderr' = IF ~cli.metrics THEN stderr
                 ELSE IF mres'.kind # "ok"
                 THEN Append(stderr, "Warning: could not interpret metrics: " \o mres'.kind)
                 ELSE stderr \o WarningLines(mres'.warnings)
                      \o (IF ires'.kind = "result" THEN <<>>
                          ELSE <<"Warning: could not interpret metrics: " \o ires'.kind>>)
    /\ stdout' = IF cli.metrics /\ mres'.kind = "ok" /\ ires'.kind = "result"
                 THEN stdout \o InterpretationReport(ires') ELSE stdout
    /\ pc' = "interpreted"
    /\ UNCHANGED <<file, outcome, plan, mfile, common_metrics, plan2, logVars, outfile>>

\* plan: the evidence event, and the end of the command
PlanLog ==
    /\ cli.cmd = "plan"
    /\ pc = "interpreted"
    /\ IF cli.log_path
       THEN /\ \E ts \in Timestamps :
                  LET event == CreateEvent(ts, outcome.profile.service, ScenarioNames(plan),
                                           cli.interpretation_ran, cli.outcome)
                  IN  /\ log' = AppendEventTo(log, event)
                      /\ appended' = Append(appended, event)
            /\ logdir' = TRUE
            /\ stdout' = Append(stdout, "Evidence logged to log")
       ELSE UNCHANGED <<log, appended, logdir, stdout>>
    /\ cli' = [cli EXCEPT !.exit = "0"]
    /\ pc' = "exit"
    /\ UNCHANGED <<file, outcome, plan, mfile, mres, ires, common_metrics, plan2, events,
                   stderr, outfile>>

\* interpret-cmd: load_metrics in its try block, and the warnings
CmdLoadMetrics ==
    /\ cli.cmd = "interpret-cmd"
    /\ pc = "loaded"
    /\ mres' = LoadMetricsOf(mfile)
    /\ IF mres'.kind # "ok"
       THEN /\ cli' = [cli EXCEPT !.exit = "1"]
            /\ stderr' = stderr \o ErrorReport(mres'.kind, TRUE)
            /\ pc' = "exit"
       ELSE /\ stderr' = stderr \o WarningLines(mres'.warnings)
            /\ pc' = "metrics"
            /\ UNCHANGED cli
    /\ UNCHANGED <<file, outcome, plan, mfile, ires, common_metrics, plan2, logVars,
                   stdout, outfile>>

\* interpret-cmd: interpret and the printed result
CmdInterpret ==
    /\ cli.cmd = "interpret-cmd"
    /\ pc = "metrics"
    /\ ires' = InterpretOf(mres.metrics, outcome.profile.slo)
    /\ IF ires'.kind # "result"
       THEN /\ cli' = [cli EXCEPT !.exit = "1"]
            /\ stderr' = stderr \o ErrorReport(ires'.kind, FALSE)
            /\ UNCHANGED stdout
       ELSE /\ cli' = [cli EXCEPT !.exit = "0"]
            /\ stdout' = stdout \o <<"Status: " \o ires'.status, ires'.narrative, "json result">>
            /\ UNCHANGED stderr
    /\ pc' = "exit"
    /\ UNCHANGED <<file, outcome, plan, mfile, mres, common_metrics, plan2, logVars, outfile>>

InitResults ==
    /\ pc = "init"
    /\ outcome = NoOutcome
    /\ plan = NoPlan
    /\ plan2 = NoPlan
    /\ common_metrics = COMMON_METRICS
    /\ mres = NoMetricsResult
    /\ ires = NoResult
    /\ events = NoEvents
    /\ appended = <<>>

\* No evidence log is in use
InitNoLog == log = NoLog /\ logdir = FALSE

\* No command runs
InitNoCli == cli = NoCli /\ stdout = <<>> /\ stderr = <<>> /\ outfile = NoLog

\* The whole pipeline: a profile and a metrics file
Init == InitResults /\ InitNoLog /\ InitNoCli /\ file \in InterpFiles /\ mfile \in InterpMetricsFiles
Next == LoadProfile \/ GeneratePlan \/ LoadMetrics \/ Interpret
Spec == Init /\ [][Next]_vars

\* load_profile on any profile file
InitLoader == InitResults /\ InitNoLog /\ InitNoCli /\ file \in LoaderFiles /\ mfile = NoMetricsFile
NextLoader == LoadProfile
SpecLoader == InitLoader /\ [][NextLoader]_vars

\* load_profile, then generate_plan on what it returned, twice
InitGen == InitResults /\ InitNoLog /\ InitNoCli /\ file \in GenFiles /\ mfile = NoMetricsFile
NextGen == LoadProfile \/ GeneratePlan \/ GeneratePlanAgain
SpecGen == InitGen /\ [][NextGen]_vars

\* load_metrics on any metrics file
InitMetrics == InitResults /\ InitNoLog /\ InitNoCli /\ file = NoFile /\ mfile \in MetricsFiles
NextMetrics == LoadMetrics
SpecMetrics == InitMetrics /\ [][NextMetrics]_vars

\* append_event calls on a log that does not exist yet, and read_events
InitLog ==
    /\ InitResults /\ InitNoCli /\ file = NoFile /\ mfile = NoMetricsFile
    /\ log = NoLog
    /\ logdir \in BOOLEAN
NextLog == AppendEvent \/ ReadEvents
SpecLog == InitLog /\ [][NextLog]_vars

\* read_events on any log file
InitRead ==
    /\ InitResults /\ InitNoCli /\ file = NoFile /\ mfile = NoMetricsFile
    /\ log \in ForeignLogs
    /\ logdir = TRUE
NextRead == ReadEvents
SpecRead == InitRead /\ [][NextRead]_vars

\* One run of a command of the command line
InitCli ==
    /\ InitResults
    /\ file \in CliFiles
    /\ cli \in CommandLines
    /\ mfile \in (IF cli.metrics THEN CliMetricsFiles ELSE {NoMetricsFile})
    /\ log \in CliLogs
    /\ logdir = log.exists
    /\ stdout = <<>> /\ stderr = <<>> /\ outfile = NoLog
NextCli ==
    CliLoadProfile \/ PlanEmit \/ PlanMetrics \/ PlanLog \/ CmdLoadMetrics \/ CmdInterpret
SpecCli == InitCli /\ [][NextCli]_vars

-----------------------------------------------------------------------------
(* Properties *)

Range(s) == {s[i] : i \in 1..Len(s)}

\* C1 (Spec): the status that interpret returns is "fail" exactly when some
\* returned check has result "fail"; when none has, it is "warning" exactly
\* when the returned risks list is not empty, and "pass" otherwise.  A
\* failing check gives "fail" whether or not there are risks.
TriageLaw ==
    ires.kind = "result" =>
        LET some_fail == \E i \in 1..Len(ires.checks) : ires.checks[i].result = "fail"
        IN  /\ ires.status \in {"fail", "warning", "pass"}
            /\ (ires.status = "fail") <=> some_fail
            /\ ~some_fail => ((ires.status = "warning") <=> (ires.risks # <<>>))
            /\ (~some_fail /\ ires.risks = <<>>) => ires.status = "pass"

\* interpret returned with a failing error rate check, no failing latency
\* check, and risks
TriageFailWithRisks ==
    /\ ires.kind = "result"
    /\ ires.status = "fail"
    /\ ires.risks # <<>>
    /\ \A i \in 1..Len(ires.checks) :
          (ires.checks[i].result = "fail") <=> (ires.checks[i].metric = "error_rate")

\* The profiles of the data model: every latency threshold is a finite
\* number, the burst factor is a finite float, the rates fit a float and
\* the dependencies are strings
ValidProfile(p) ==
    /\ \A i \in 1..Len(p.slo.latency_ms) :
          p.slo.latency_ms[i].v.t \in {"int", "float", "bool"}
    /\ p.traffic.burst_factor.t = "float"
    /\ p.traffic.baseline_rps.t = "int"
    /\ p.traffic.peak_rps.t = "int"
    /\ \A i \in 1..Len(p.dependencies) : IsStr(p.dependencies[i])

\* C2 (SpecGen): for a valid profile generate_plan returns a plan of exactly
\* three scenarios, steady, burst and soak in this order, each with at least
\* one check and at least one metric to watch.
ThreeScenarios ==
    (plan.kind # "none" /\ ValidProfile(outcome.profile)) =>
        /\ plan.kind = "plan"
        /\ Len(plan.scenarios) = 3
        /\ plan.scenarios[1].name = "steady"
        /\ plan.scenarios[2].name = "burst"
        /\ plan.scenarios[3].name = "soak"
        /\ \A i \in 1..3 :
              /\ Len(plan.scenarios[i].checks) >= 1
              /\ Len(plan.scenarios[i].metrics_to_watch) >= 1

\* A plan was generated from a profile whose slo.latency_ms is empty
PlanWithoutLatency ==
    /\ plan.kind = "plan"
    /\ ValidProfile(outcome.profile)
    /\ outcome.profile.slo.latency_ms = <<>>

\* C3 (SpecGen): the burst scenario has one check per check of the steady
\* scenario, at the same position and for the same metric; for a latency
\* check the burst threshold is 1.5 times the steady threshold, and for the
\* error_rate check it is the steady threshold.
BurstRelaxation ==
    plan.kind = "plan" =>
        LET steady == plan.scenarios[1].checks
            burst == plan.scenarios[2].checks
        IN  /\ Len(burst) = Len(steady)
            /\ \A i \in 1..Len(steady) :
                  /\ burst[i].metric = steady[i].metric
                  /\ IF steady[i].metric = "error_rate"
                     THEN burst[i].threshold = steady[i].threshold
                     ELSE /\ burst[i].threshold.t = "float"
                          /\ 2 * burst[i].threshold.v = 3 * steady[i].threshold.v
            /\ Cardinality({i \in 1..Len(burst) : burst[i].metric = "error_rate"}) = 1

\* A plan whose steady scenario has two latency checks, one of them with a
\* fractional threshold
BurstTwoLatencies ==
    /\ plan.kind = "plan"
    /\ Len(plan.scenarios[1].checks) = 3
    /\ \E i \in 1..2 : plan.scenarios[1].checks[i].threshold = PFloat(800500)
    /\ plan.scenarios[2].checks[1].metric # "error_rate"

\* The rules of a profile document that the document violates, each named by
\* its message
ViolatedRules(d) ==
    LET tr == d.traffic
        sl == d.slo
        ep == d.endpoints
    IN  (IF ~(IsStr(d.service) /\ d.service.v # 0) THEN {ErrService} ELSE {})
        \cup (IF tr.t # "dict" THEN {ErrTraffic} ELSE {})
        \cup (IF tr.t = "dict" /\ ~IsNumber(tr.baseline_rps) THEN {ErrBaseline} ELSE {})
        \cup (IF tr.t = "dict" /\ ~IsNumber(tr.peak_rps) THEN {ErrPeak} ELSE {})
        \cup (IF sl.t # "dict" THEN {ErrSlo} ELSE {})
        \cup (IF sl.t = "dict" /\ sl.latency_ms.t \notin {"absent", "dict"}
              THEN {ErrLatency} ELSE {})
        \cup (IF sl.t = "dict" /\ sl.error_rate.t # "absent" /\ ~IsNumber(sl.error_rate)
              THEN {ErrErrorRate} ELSE {})
        \cup (IF ep.t \notin {"absent", "list"} THEN {ErrEndpoints} ELSE {})
        \cup {ErrEndpointItem(i - 1) : i \in {j \in 1..Len(ep.items) : ep.items[j].t # "dict"}}
        \cup {ErrEndpointPath(i - 1) :
                i \in {j \in 1..Len(ep.items) :
                         ep.items[j].t = "dict" /\ ~Truthy(ep.items[j].path)}}
        \cup (IF d.dependencies.t \notin {"absent", "list"} THEN {ErrDependencies} ELSE {})

\* C4 (SpecLoader): for a profile mapping that violates some rule,
\* load_profile raises one ProfileValidationError whose message lists every
\* violated rule, whichever other rules are violated.
ValidationCompleteness ==
    (file.kind = "map" /\ outcome.kind # "none" /\ ViolatedRules(file.doc) # {}) =>
        /\ outcome.kind = "ProfileValidationError"
        /\ Range(outcome.errors) = ViolatedRules(file.doc)

\* C5 (SpecLoader): load_profile either returns a ServiceProfile or raises
\* ProfileValidationError, whatever the file and the types of its fields.
OnlyValidationErrors ==
    file.kind \in {"missing", "badext", "syntax", "nonmap", "map"} =>
        outcome.kind \in {"none", "profile", "ProfileValidationError"}

\* C6 (SpecLoader): a returned profile has non-negative integer rates and a
\* positive burst factor.
TrafficRanges ==
    outcome.kind = "profile" =>
        /\ outcome.profile.traffic.baseline_rps.t = "int"
        /\ outcome.profile.traffic.baseline_rps.v >= 0
        /\ outcome.profile.traffic.peak_rps.t = "int"
        /\ outcome.profile.traffic.peak_rps.v >= 0
        /\ outcome.profile.traffic.burst_factor.t = "float"
        /\ outcome.profile.traffic.burst_factor.v > 0

\* C7 (SpecLoader): load_profile returns a profile only when no error was
\* collected, the returned profile has a non-empty string service, a
\* traffic shape and an SLO, and when an error was collected no profile is
\* returned.
ProfileOnlyWithoutErrors ==
    /\ outcome.kind = "profile" =>
          /\ outcome.errors = <<>>
          /\ IsStr(outcome.profile.service)
          /\ outcome.profile.service.v # 0
          /\ outcome.profile.traffic.t = "TrafficShape"
          /\ outcome.profile.slo.t = "SLO"
    /\ outcome.errors # <<>> =>
          /\ outcome.kind # "profile"
          /\ outcome.profile = NoProfile

\* load_profile returned a profile from a mapping
ProfileReturned ==
    /\ file.kind = "map"
    /\ outcome.kind = "profile"
    /\ outcome.profile.traffic.baseline_rps = PInt(MaxRps)

\* The number of elements of s equal to w
Count(w, s) == Cardinality({i \in 1..Len(s) : s[i] = w})

\* The number of warnings that name the field f
Naming(f, warnings) == Count(MissingWarning(f), warnings) + Count(NonNumericWarning(f), warnings)

\* The position of the field that the warning w names
FieldOf(w) ==
    CHOOSE i \in 1..Len(METRIC_FIELDS) :
        w \in {MissingWarning(METRIC_FIELDS[i]), NonNumericWarning(METRIC_FIELDS[i])}

\* The warnings follow the order of METRIC_FIELDS
InFieldOrder(warnings) ==
    \A i, j \in 1..Len(warnings) : i < j => FieldOf(warnings[i]) < FieldOf(warnings[j])

\* C8 (SpecMetrics): load_metrics returns (MetricsSummary, warnings) for
\* every JSON object and every CSV file with a data row, whatever the
\* fields hold, and raises MetricsParseError for every structural failure.
FieldsNeverFatal ==
    mres.kind # "none" =>
        /\ mfile.kind \in {"json", "csv"} => mres.kind = "ok"
        /\ mfile.kind \in {"missing", "badext", "json_syntax", "json_nonobject", "csv_norows"}
              => mres.kind = "MetricsParseError"

\* float() accepts the value x
Coercible(x) == x.t \in {"int", "float", "bool", "numstr", "inf", "nan"}

\* C9 as stated (SpecMetrics): when load_metrics returns for a JSON object,
\* for each field: absent gives null and the one warning "missing field";
\* present and not coercible gives null and the one warning "non-numeric
\* value"; coercible gives the float and no warning.
JsonFieldLawAsStated ==
    (mfile.kind = "json" /\ mres.kind = "ok") =>
        /\ InFieldOrder(mres.warnings)
        /\ \A f \in FieldNames :
              LET x == mfile.fields[f]
              IN  /\ x.t = "absent" =>
                        /\ mres.metrics[f] = PyNone
                        /\ Count(MissingWarning(f), mres.warnings) = 1
                        /\ Naming(f, mres.warnings) = 1
                  /\ (x.t # "absent" /\ ~Coercible(x)) =>
                        /\ mres.metrics[f] = PyNone
                        /\ Count(NonNumericWarning(f), mres.warnings) = 1
                        /\ Naming(f, mres.warnings) = 1
                  /\ Coercible(x) =>
                        /\ mres.metrics[f] = PyFloat(x).val
                        /\ Naming(f, mres.warnings) = 0

\* C9 as amended (SpecMetrics): for a JSON object, load_metrics returns
\* unless some field is an integer beyond the range of a float; when it
\* returns, the warnings follow the order of the nine fields and for each
\* field: absent or null gives null and the one warning "missing field";
\* a string that is not a number or a container gives null and the one
\* warning "non-numeric value"; any other value gives its float and no
\* warning.  So a field is null exactly when one warning names it, and
\* there are as many warnings as null fields.
JsonFieldLaw ==
    (mfile.kind = "json" /\ mres.kind # "none") =>
        /\ (mres.kind = "ok") <=> (\A f \in FieldNames : mfile.fields[f].t # "bigint")
        /\ mres.kind = "ok" =>
              /\ InFieldOrder(mres.warnings)
              /\ Len(mres.warnings) =
                    Cardinality({f \in FieldNames : mres.metrics[f] = PyNone})
              /\ \A f \in FieldNames :
                    LET x == mfile.fields[f]
                    IN  /\ Naming(f, mres.warnings) = IF mres.metrics[f] = PyNone THEN 1 ELSE 0
                        /\ x.t \in {"absent", "none"} =>
                              /\ mres.metrics[f] = PyNone
                              /\ Count(MissingWarning(f), mres.warnings) = 1
                        /\ x.t \in {"str", "list", "dict"} =>
                              /\ mres.metrics[f] = PyNone
                              /\ Count(NonNumericWarning(f), mres.warnings) = 1
                        /\ Coercible(x) =>
                              /\ mres.metrics[f] = PyFloat(x).val
                              /\ mres.metrics[f] # PyNone

\* load_metrics returned for a JSON object with a null field, a field that
\* is not a number and a numeric field
JsonMixedFields ==
    /\ mfile.kind = "json"
    /\ mres.kind = "ok"
    /\ \E f, g, h \in FieldNames :
          /\ mfile.fields[f].t = "none"
          /\ mfile.fields[g].t = "str"
          /\ mfile.fields[h].t = "int"
          /\ Len(mres.warnings) = 2

\* C10 as stated (SpecMetrics): a recognized CSV column whose cell is not a
\* number is null in the returned summary and no warning names it.
CsvSilentDrop ==
    (mfile.kind = "csv" /\ mres.kind = "ok") =>
        \A f \in FieldNames :
            mfile.fields[f].t = "str" =>
                /\ mres.metrics[f] = PyNone
                /\ Naming(f, mres.warnings) = 0

\* C10 as amended (SpecMetrics): a recognized CSV column whose cell is not
\* a number is null in the returned summary and exactly one warning names
\* it, "missing field", as for a column that is absent; the warning
\* "non-numeric value" is never emitted for a CSV file.
CsvDropIsMissing ==
    (mfile.kind = "csv" /\ mres.kind = "ok") =>
        /\ \A f \in FieldNames :
              mfile.fields[f].t = "str" =>
                  /\ mres.metrics[f] = PyNone
                  /\ Count(MissingWarning(f), mres.warnings) = 1
        /\ \A f \in FieldNames : Count(NonNumericWarning(f), mres.warnings) = 0

\* load_metrics returned for a CSV row with a cell that is not a number
\* next to numeric cells
CsvNonNumericCell ==
    /\ mfile.kind = "csv"
    /\ mres.kind = "ok"
    /\ \E f, g \in FieldNames :
          /\ mfile.fields[f] = PStr(1)
          /\ mres.metrics[g] = PFloat(2500)
    /\ Len(mres.warnings) = 1

\* The metrics summary that load_metrics returned has all nine fields null
AllNull == \A f \in FieldNames : mres.metrics[f].t = "none"

HasKey(latency_ms, pct) == \E i \in 1..Len(latency_ms) : latency_ms[i].k = pct

\* The metric names of a checks list, in order
MetricsOf(checks) == [i \in 1..Len(checks) |-> checks[i].metric]

\* The original statement of C12: one latency check for each key of
\* {p95, p99} that is present in slo.latency_ms, then the error_rate check.
ChecksPerKeyAsStated ==
    ires.kind = "result" =>
        LET latency_ms == outcome.profile.slo.latency_ms
        IN  MetricsOf(ires.checks) =
                (IF HasKey(latency_ms, "p95") THEN <<"latency_p95">> ELSE <<>>)
                \o (IF HasKey(latency_ms, "p99") THEN <<"latency_p99">> ELSE <<>>)
                \o <<"error_rate">>

\* C12 (Spec): the checks that interpret returns are one latency check for
\* each key of {p95, p99} that slo.latency_ms holds with a threshold other
\* than null, p95 before p99, then one error_rate check; no other key of
\* slo.latency_ms and no metric gets a check.
ChecksPerThreshold ==
    ires.kind = "result" =>
        LET latency_ms == outcome.profile.slo.latency_ms
            has(pct) == \E i \in 1..Len(latency_ms) :
                            latency_ms[i].k = pct /\ latency_ms[i].v.t # "none"
        IN  MetricsOf(ires.checks) =
                (IF has("p95") THEN <<"latency_p95">> ELSE <<>>)
                \o (IF has("p99") THEN <<"latency_p99">> ELSE <<>>)
                \o <<"error_rate">>

\* interpret returned for an SLO whose p95 key has a null threshold, with
\* p90_ms and p95_ms in the metrics: no latency_p95 check
NullThresholdNoCheck ==
    /\ ires.kind = "result"
    /\ HasKey(outcome.profile.slo.latency_ms, "p95")
    /\ mres.metrics["p95_ms"].t # "none"
    /\ mres.metrics["p90_ms"].t # "none"
    /\ MetricsOf(ires.checks) = <<"latency_p99", "error_rate">>

\* The metrics field and the SLO threshold that a check is about
CheckedField(metric) ==
    CASE metric = "latency_p95" -> "p95_ms"
      [] metric = "latency_p99" -> "p99_ms"
      [] OTHER -> "error_rate"
CheckedThreshold(metric, slo) ==
    CASE metric = "latency_p95" -> LatencyGet(slo.latency_ms, "p95")
      [] metric = "latency_p99" -> LatencyGet(slo.latency_ms, "p99")
      [] OTHER -> slo.error_rate

\* The results of a checks list, in order
ResultsOf(checks) == [i \in 1..Len(checks) |-> checks[i].result]

\* The metrics and the SLO of the example: p95_ms=900, p99_ms=1500,
\* error_rate=0.005 against p95 <= 400, p99 <= 800, error_rate <= 0.01
ExampleInput ==
    /\ mres.metrics["p95_ms"] = PFloat(900000)
    /\ mres.metrics["p99_ms"] = PFloat(1500000)
    /\ mres.metrics["error_rate"] = PFloat(5)
    /\ outcome.profile.slo.latency_ms =
            <<[k |-> "p95", v |-> PInt(400)], [k |-> "p99", v |-> PInt(800)]>>
    /\ outcome.profile.slo.error_rate = PFloat(10)

\* C13 (Spec): for each check that interpret returns, the result is "skip"
\* exactly when the metric field it is about is null; otherwise it is "pass"
\* exactly when the value is <= the threshold (equality passes) and "fail"
\* otherwise.  The example input gives fail, fail, pass.
CheckResultLaw ==
    ires.kind = "result" =>
        /\ \A i \in 1..Len(ires.checks) :
              LET c == ires.checks[i]
                  value == mres.metrics[CheckedField(c.metric)]
                  threshold == CheckedThreshold(c.metric, outcome.profile.slo)
              IN  /\ (c.result = "skip") <=> (value.t = "none")
                  /\ value.t # "none" =>
                        /\ c.result \in {"pass", "fail"}
                        /\ (c.result = "pass") <=> PyLe(value, threshold).val
        /\ ExampleInput =>
              /\ MetricsOf(ires.checks) = <<"latency_p95", "latency_p99", "error_rate">>
              /\ ResultsOf(ires.checks) = <<"fail", "fail", "pass">>

\* interpret returned a latency check that passes with the value equal to
\* the threshold, next to a skipped and a failing check
EqualThresholdPasses ==
    /\ ires.kind = "result"
    /\ mres.metrics["p95_ms"] = PFloat(400000)
    /\ outcome.profile.slo.latency_ms =
            <<[k |-> "p95", v |-> PInt(400)], [k |-> "p99", v |-> PInt(800)]>>
    /\ ResultsOf(ires.checks) = <<"pass", "skip", "fail">>

\* C14 (Spec): the risks that interpret returns are, in the order CPU,
\* memory, GC pause, one risk for cpu_percent exactly when it is not null
\* and > 80, one for memory_percent exactly when it is not null and > 80,
\* and one for gc_pause_ms exactly when it is not null and > 100, whatever
\* the SLO and the check results are.
RiskLaw ==
    ires.kind = "result" =>
        LET over(f, limit) ==
                /\ mres.metrics[f].t # "none"
                /\ mres.metrics[f].t # "nan"
                /\ (mres.metrics[f].t = "inf" \/ mres.metrics[f].v > limit * 1000)
        IN  ires.risks =
                (IF over("cpu_percent", 80) THEN <<"High CPU usage">> ELSE <<>>)
                \o (IF over("memory_percent", 80) THEN <<"High memory usage">> ELSE <<>>)
                \o (IF over("gc_pause_ms", 100) THEN <<"Elevated GC pause">> ELSE <<>>)

\* interpret returned status "fail" with a memory and a GC pause risk, for
\* cpu_percent exactly 80
RisksWithFailAtLimit ==
    /\ ires.kind = "result"
    /\ ires.status = "fail"
    /\ mres.metrics["cpu_percent"] = PFloat(80000)
    /\ ires.risks = <<"High memory usage", "Elevated GC pause">>

TruncatedProduct(peak_rps, burst_factor) ==
    LET p == (peak_rps.v \div 1000) * burst_factor.v
    IN  PInt(IF p >= 0 THEN p \div 1000 ELSE -((-p) \div 1000))

\* C16 (SpecGen): for a valid profile the stages of the three scenarios are
\* the fixed lists of (name, duration, target) with the profile's
\* baseline_rps and B = peak_rps x burst_factor truncated to an integer;
\* every stage has a positive duration and a target_rps that is not null;
\* peak_rps = 200 with burst_factor = 3.0 gives a spike target of 600.
StagesLaw ==
    (plan.kind # "none" /\ ValidProfile(outcome.profile)) =>
        LET traffic == outcome.profile.traffic
            baseline == traffic.baseline_rps
            B == TruncatedProduct(traffic.peak_rps, traffic.burst_factor)
        IN  /\ plan.kind = "plan"
            /\ plan.scenarios[1].stages =
                    <<Stage("ramp-up", 60, baseline),
                      Stage("hold", 600, baseline),
                      Stage("ramp-down", 30, PInt(0))>>
            /\ plan.scenarios[2].stages =
                    <<Stage("ramp-up", 60, baseline),
                      Stage("hold-baseline", 120, baseline),
                      Stage("spike", 30, B),
                      Stage("hold-burst", 120, B),
                      Stage("recover", 60, baseline),
                      Stage("ramp-down", 30, PInt(0))>>
            /\ plan.scenarios[3].stages =
                    <<Stage("ramp-up", 120, baseline),
                      Stage("hold", 3600, baseline),
                      Stage("ramp-down", 60, PInt(0))>>
            /\ \A i \in 1..3 : \A j \in 1..Len(plan.scenarios[i].stages) :
                  /\ plan.scenarios[i].stages[j].duration_seconds > 0
                  /\ plan.scenarios[i].stages[j].target_rps.t = "int"
            /\ (traffic.peak_rps = PInt(200) /\ traffic.burst_factor = PFloat(3000)) =>
                  plan.scenarios[2].stages[3].target_rps = PInt(600)

\* A plan for a valid profile whose peak_rps x burst_factor is not an
\* integer: 1 x 1.5 gives a spike target of 1
SpikeTruncated ==
    /\ plan.kind = "plan"
    /\ ValidProfile(outcome.profile)
    /\ outcome.profile.traffic.peak_rps = PInt(1)
    /\ outcome.profile.traffic.burst_factor = PFloat(1500)
    /\ plan.scenarios[2].stages[3].target_rps = PInt(1)

\* C17 (SpecGen): for a valid profile the checks of the steady scenario are
\* one check latency_<percentile> for every (percentile, threshold) pair of
\* slo.latency_ms, in the map's order and with the threshold's value as a
\* float, followed by one error_rate check with slo.error_rate as the last
\* element; every check has operator "<=".
SteadyChecksLaw ==
    (plan.kind # "none" /\ ValidProfile(outcome.profile)) =>
        LET slo == outcome.profile.slo
            n == Len(slo.latency_ms)
            checks == plan.scenarios[1].checks
        IN  /\ plan.kind = "plan"
            /\ Len(checks) = n + 1
            /\ \A i \in 1..n :
                  /\ checks[i].metric = "latency_" \o slo.latency_ms[i].k
                  /\ checks[i].threshold.t = "float"
                  /\ checks[i].threshold.v = slo.latency_ms[i].v.v
            /\ checks[n + 1].metric = "error_rate"
            /\ checks[n + 1].threshold = slo.error_rate
            /\ \A i \in 1..(n + 1) : checks[i].operator = "<="

\* A plan for a valid profile whose slo.latency_ms lists p99 before p50,
\* with an integer and a fractional threshold
SteadyUnsortedKeys ==
    /\ plan.kind = "plan"
    /\ ValidProfile(outcome.profile)
    /\ outcome.profile.slo.latency_ms =
            <<[k |-> "p99", v |-> PInt(400)], [k |-> "p50", v |-> PFloat(800500)]>>
    /\ MetricsOf(plan.scenarios[1].checks) = <<"latency_p99", "latency_p50", "error_rate">>

\* C18 (SpecGen): for a valid profile the checks of the soak scenario are
\* the common checks (those of the steady scenario) followed by
\* memory_percent <= 85.0 and cpu_percent <= 80.0, its metrics_to_watch is
\* the eight common metrics followed by gc_pause_ms, and the steady and the
\* burst scenario have no memory_percent or cpu_percent check.
SoakLaw ==
    (plan.kind # "none" /\ ValidProfile(outcome.profile)) =>
        /\ plan.kind = "plan"
        /\ plan.scenarios[3].checks =
                plan.scenarios[1].checks
                \o <<[metric |-> "memory_percent", operator |-> "<=", threshold |-> PFloat(85000)],
                     [metric |-> "cpu_percent", operator |-> "<=", threshold |-> PFloat(80000)]>>
        /\ plan.scenarios[3].metrics_to_watch =
                <<"latency_p50", "latency_p90", "latency_p95", "latency_p99", "error_rate",
                  "throughput_rps", "cpu_percent", "memory_percent", "gc_pause_ms">>
        /\ \A i \in 1..2 : \A j \in 1..Len(plan.scenarios[i].checks) :
              plan.scenarios[i].checks[j].metric \notin {"memory_percent", "cpu_percent"}

\* A plan for a valid profile with no latency threshold and an error rate
\* of its own: the soak scenario has three checks
SoakWithoutLatency ==
    /\ plan.kind = "plan"
    /\ ValidProfile(outcome.profile)
    /\ outcome.profile.slo.error_rate = PFloat(50)
    /\ MetricsOf(plan.scenarios[3].checks) = <<"error_rate", "memory_percent", "cpu_percent">>

\* The dependencies of a profile written one after the other, each but the
\* first preceded by ", "
RECURSIVE CommaSeparated(_, _)
CommaSeparated(deps, n) ==
    IF n = 0 THEN ""
    ELSE CommaSeparated(deps, n - 1) \o (IF n > 1 THEN ", " ELSE "") \o StrText(deps[n])

\* C19 (SpecGen): test_data_handling of a generated plan is the fixed PII
\* warning when data.uses_production_data is true, whatever data.notes is;
\* otherwise data.notes when it is not empty; otherwise "Use synthetic/test
\* data only."  environment_isolation embeds the dependencies joined by ", "
\* in profile order, or "none listed" for an empty list, and cleanup_steps is
\* one constant text.
SafetyNotesLaw ==
    plan.kind = "plan" =>
        LET data == outcome.profile.data
            deps == outcome.profile.dependencies
            notes == plan.safety_notes
        IN  /\ data.uses_production_data =>
                  notes.test_data_handling =
                      "WARNING: profile indicates production data may be in use. "
                      \o "Ensure PII masking and data-handling policies are followed."
            /\ (~data.uses_production_data /\ StrText(data.notes) # "") =>
                  notes.test_data_handling = StrText(data.notes)
            /\ (~data.uses_production_data /\ StrText(data.notes) = "") =>
                  notes.test_data_handling = "Use synthetic/test data only."
            /\ notes.environment_isolation =
                  "Ensure load tests run against an isolated environment. Dependencies ("
                  \o (IF deps = <<>> THEN "none listed" ELSE CommaSeparated(deps, Len(deps)))
                  \o ") should be stubbed or provisioned in test mode."
            /\ notes.cleanup_steps =
                  "After test completion, tear down any provisioned test data "
                  \o "and verify no side-effects leaked to shared environments."

\* A plan for a profile that uses production data, has notes, and lists two
\* dependencies, the second before the first in name order
WarningOverNotes ==
    /\ plan.kind = "plan"
    /\ outcome.profile.data.uses_production_data
    /\ StrText(outcome.profile.data.notes) # ""
    /\ outcome.profile.dependencies = <<PStr(2), PStr(1)>>
    /\ plan.safety_notes.environment_isolation = EnvIsolation("s2, s1")

\* The number of checks with result "fail"
FailCount(checks) == Cardinality({i \in 1..Len(checks) : checks[i].result = "fail"})

\* The lines that C20 lists for a result and the metrics it was made from
NarrativeLines(result, metrics) ==
    LET failing == SelectSeq(result.checks, LAMBDA c : c.result = "fail")
    IN  (CASE result.status = "pass" -> <<"All SLO checks passed.">>
           [] result.status = "fail" ->
                <<"SLO VIOLATION: " \o ToString(FailCount(result.checks)) \o " check(s) failed.">>
           [] OTHER -> <<"SLO checks passed, but risks were detected.">>)
        \o (IF result.status = "fail"
            THEN [i \in 1..Len(failing) |-> "  - " \o failing[i].detail]
            ELSE <<>>)
        \o (IF metrics["throughput_rps"].t # "none"
            THEN <<"Throughput: " \o Format0(metrics["throughput_rps"]) \o " rps">>
            ELSE <<>>)
        \o (IF result.risks # <<>>
            THEN <<"Risks:">> \o [i \in 1..Len(result.risks) |-> "  - " \o result.risks[i]]
            ELSE <<>>)

\* C20 (Spec): the narrative that interpret returns is the newline-join of:
\* the opening line of the status; when the status is "fail", one indented
\* line per failing check in checks order, the number in the opening line
\* being the number of failing checks; a "Throughput: N rps" line exactly
\* when throughput_rps is not null; and, exactly when risks is not empty, a
\* "Risks:" header and one indented line per risk in risks order.
NarrativeLaw ==
    ires.kind = "result" =>
        ires.narrative = Join(NarrativeLines(ires, mres.metrics), "\n")

\* interpret returned status "fail" with two failing checks, a throughput
\* and two risks: a narrative of seven lines
FailNarrativeWithRisks ==
    /\ ires.kind = "result"
    /\ ires.status = "fail"
    /\ FailCount(ires.checks) = 2
    /\ Len(ires.risks) = 2
    /\ mres.metrics["throughput_rps"].t # "none"
    /\ Len(NarrativeLines(ires, mres.metrics)) = 7
    /\ ires.narrative = Join(NarrativeLines(ires, mres.metrics), "\n")

\* C21 (SpecLog): after any sequence of append_event calls on a log that
\* did not exist, the file exists (and so does its parent directory) as
\* soon as one call was made, and it holds exactly one line per call, in
\* call order, each line ended by a newline and being the JSON object of
\* that call's event; so no call changes a line written before.
AppendOnlyLog ==
    LET lines == SplitLines(log.text, 1)
    IN  /\ log.exists <=> appended # <<>>
        /\ log.exists => logdir
        /\ Len(lines) = Len(appended)
        /\ log.text # "" => Ch(log.text, Len(log.text)) = "\n"
        /\ \A i \in 1..Len(lines) :
              JsonLoads(lines[i]) = [ok |-> TRUE, val |-> EventDict(appended[i])]

\* Two append_event calls were made where the parent directory was
\* missing, the first with a service name that holds a newline
TwoEventsAppended ==
    /\ Len(appended) = 2
    /\ appended[1].service = JStr("a\nb\"c\\d")
    /\ appended[2] # appended[1]
    /\ Len(SplitLines(log.text, 1)) = 2
    /\ logdir

\* The lines of the log whose text is a JSON object
ObjectLines ==
    LET lines == SplitLines(log.text, 1)
    IN  {i \in 1..Len(lines) :
            JsonLoads(Strip(lines[i])).ok /\ JsonLoads(Strip(lines[i])).val.t = "object"}

\* C22 (SpecRead): read_events never raises; for a path that does not exist
\* it returns the empty list, and for any file content it returns one event
\* per line that is a JSON object, skipping blank lines, lines that are not
\* valid JSON and lines that are valid JSON but not an object.
ReadNeverRaises ==
    events.kind # "none" =>
        /\ events.kind = "ok"
        /\ ~log.exists => events.events = <<>>
        /\ Len(events.events) = Cardinality(ObjectLines)

\* The plan that `plan` emitted: on standard output, or in the file of --out
\* with its notice on standard output
PlanEmitted ==
    /\ plan.kind = "plan"
    /\ IF cli.out
       THEN outfile = [exists |-> TRUE, text |-> "plan_json" \o "\n"]
            /\ stdout # <<>> /\ stdout[1] = "Plan written to out"
       ELSE stdout # <<>> /\ stdout[1] = "plan_json"

\* The run is one of `plan` on a profile that load_profile returned and
\* whose values have the types of the profile schema
PlanRunValid ==
    /\ cli.cmd = "plan"
    /\ outcome.kind = "profile"
    /\ ValidProfile(outcome.profile)

\* The text of the evidence log after the one event e was appended to a log
\* of CliLogs
LogWithOneMore(e) ==
    {l.text \o JsonDumps(EventDict(e)) \o "\n" : l \in CliLogs}

\* C23 (SpecCli): a run of `plan` on a valid profile with --log appends
\* exactly one event, as its last step: the plan has been emitted and the
\* metrics block is over when the event is in the log.  Its scenarios are
\* steady, burst, soak; its interpretation flag is true exactly when
\* --metrics was given and interpret returned; its outcome is
\* "issues-detected" exactly for a returned status "fail",
\* "plan-and-interpretation-generated" exactly for a returned "pass" or
\* "warning", and "plan-generated" exactly when interpret did not return.
\* Without --log nothing is appended and the log is as it was.
OneEventPerPlanRun ==
    PlanRunValid =>
       /\ appended # <<>> => (cli.log_path /\ pc = "exit" /\ PlanEmitted
                              /\ (cli.metrics => mres.kind # "none"))
       /\ (pc = "exit" /\ cli.log_path) =>
             /\ Len(appended) = 1
             /\ log.exists /\ log.text \in LogWithOneMore(appended[1])
             /\ appended[1].scenarios = JList(<<JStr("steady"), JStr("burst"), JStr("soak")>>)
             /\ appended[1].interpretation = JBool(cli.metrics /\ ires.kind = "result")
             /\ (appended[1].outcome = JStr("issues-detected"))
                   <=> (ires.kind = "result" /\ ires.status = "fail")
             /\ (appended[1].outcome = JStr("plan-and-interpretation-generated"))
                   <=> (ires.kind = "result" /\ ires.status \in {"pass", "warning"})
             /\ (appended[1].outcome = JStr("plan-generated")) <=> (ires.kind # "result")
       /\ ~cli.log_path => (appended = <<>> /\ log \in CliLogs)

\* A run on a valid profile, with --log and --metrics, whose interpretation
\* returned "warning", has ended with its event appended after an earlier line
WarningRunLogged ==
    /\ PlanRunValid
    /\ pc = "exit" /\ cli.log_path /\ cli.metrics
    /\ ires.kind = "result" /\ ires.status = "warning"
    /\ Len(appended) = 1
    /\ appended[1].outcome = JStr("plan-and-interpretation-generated")
    /\ log.text = PriorLine \o "\n" \o JsonDumps(EventDict(appended[1])) \o "\n"

\* C24 (SpecCli): after load_profile failed with ProfileValidationError,
\* either command has reported the error on standard error and exited with
\* status 1, and it has emitted no plan (nothing on standard output, no file
\* of --out), loaded and interpreted no metrics, and appended no event.
ProfileErrorStopsCommand ==
    outcome.kind = "ProfileValidationError" =>
       /\ pc = "exit"
       /\ cli.exit = "1"
       /\ stderr = <<"Error: ProfileValidationError">>
       /\ stdout = <<>>
       /\ outfile = NoLog
       /\ plan = NoPlan
       /\ mres = NoMetricsResult
       /\ ires = NoResult
       /\ appended = <<>>
       /\ log \in CliLogs

\* `plan` with --out, --log and --metrics has ended on a profile that failed
\* validation
PlanStoppedOnInvalidProfile ==
    /\ cli.cmd = "plan" /\ cli.out /\ cli.log_path /\ cli.metrics
    /\ file.kind = "map"
    /\ outcome.kind = "ProfileValidationError"
    /\ mfile.kind = "json"
    /\ cli.exit = "1"

\* load_metrics or interpret raised in the running command
MetricsFailed ==
    \/ mres.kind \notin {"none", "ok"}
    \/ ires.kind \notin {"none", "result"}

\* C25 (SpecCli): in `plan`, when load_metrics or interpret raised, the plan
\* has been emitted, a warning is on standard error, interpretation_ran is
\* false and the outcome "plan-generated"; the command ends with status 0,
\* and with --log its one event has interpretation false and outcome
\* "plan-generated".  In `interpret-cmd`, when load_metrics raised, the
\* command has exited with status 1 with the error on standard error,
\* interpret was not called and nothing is on standard output.
MetricsFailureHandling ==
    /\ (cli.cmd = "plan" /\ MetricsFailed) =>
          /\ PlanEmitted
          /\ stderr # <<>>
          /\ stderr[Len(stderr)] \in
                {"Warning: could not interpret metrics: " \o k : k \in {mres.kind, ires.kind}}
          /\ ~cli.interpretation_ran
          /\ cli.outcome = "plan-generated"
          /\ cli.exit = (IF pc = "exit" THEN "0" ELSE "")
          /\ (pc = "exit" /\ cli.log_path) =>
                /\ Len(appended) = 1
                /\ appended[1].interpretation = JBool(FALSE)
                /\ appended[1].outcome = JStr("plan-generated")
                /\ log.text \in LogWithOneMore(appended[1])
    /\ (cli.cmd = "interpret-cmd" /\ mres.kind \notin {"none", "ok"}) =>
          /\ pc = "exit"
          /\ cli.exit = "1"
          /\ stderr = <<"Error: " \o mres.kind>>
          /\ stdout = <<>>
          /\ ires = NoResult

\* `plan` with --log has ended after interpret raised on metrics that
\* load_metrics returned
PlanSurvivedInterpretError ==
    /\ cli.cmd = "plan" /\ cli.log_path /\ cli.metrics
    /\ mres.kind = "ok"
    /\ ires.kind = "TypeError"
    /\ pc = "exit" /\ cli.exit = "0"
    /\ Len(appended) = 1

\* C26 (SpecGen): generate_plan returns a LoadTestPlan for every profile that
\* load_profile returned: whenever generate_plan was called, its outcome is a
\* plan and not an exception.
GeneratePlanTotal == plan.kind \in {"none", "plan"}

\* C27 (Spec): interpret returns an InterpretationResult for every SLO that
\* load_profile returned and every summary that load_metrics returned:
\* whenever interpret was called, its outcome is a result and not an
\* exception.
InterpretTotal == ires.kind \in {"none", "result"}

=============================================================================
